---- MODULE Spec2Model ----
(***************************************************************************)
(* A model of the fuzzy word matcher of src/offline/word_matcher.py        *)
(* (class WordMatcher): text normalisation, the phonetic key, the          *)
(* variation index, the similarity scorer and match_text; and of the       *)
(* transcription pipelines of src/offline/transcribe_audio.py,             *)
(* src/py/transcribe_audio.py and src/py/process_transcriptions.py.        *)
(*                                                                         *)
(* A Python str is a sequence of one-character strings.  A Python float    *)
(* score is an exact rational <<numerator, denominator>>: every score of   *)
(* the matcher is a quotient of small integers, combined with + - * / max  *)
(* and min and compared with the literals 0.5, 0.6, 0.7 and 0.8.           *)
(***************************************************************************)
EXTENDS Integers, Sequences, FiniteSets, TLC

(***************************************************************************)
(* The state: the engine and its callers.                                  *)
(*   source          the records of the dictionary file                    *)
(*   engine          "unbuilt", "built", or "failed" (__init__ raised)     *)
(*   dictionary      self.dictionary                                       *)
(*   word_variations self.word_variations, in insertion order              *)
(*   generic_terms   self.generic_terms                                    *)
(*   build_error     what the last WordMatcher(...) raised: "None" or      *)
(*                   "KeyError"                                            *)
(*   calls           per thread, the frame of its call                     *)
(*   batch           the activation of process_batch: its stage, its files *)
(*                   and their tasks, the results it has gathered          *)
(*   jobs            the Transcribe service: the status of each job name   *)
(*   reports         the responses of the Lambda runs and what             *)
(*                   process_transcriptions made of them                   *)
(***************************************************************************)
VARIABLES source, engine, dictionary, word_variations, generic_terms,
          build_error, calls, batch, jobs, reports

(***************************************************************************)
(* Rational arithmetic for the scores.                                     *)
(***************************************************************************)
RECURSIVE GCD(_, _)
GCD(a, b) == IF b = 0 THEN a ELSE GCD(b, a % b)

Abs(n) == IF n < 0 THEN 0 - n ELSE n

Rat(n, d) ==
    LET g == GCD(Abs(n), d)
    IN  IF n = 0 THEN <<0, 1>> ELSE <<n \div g, d \div g>>

RAdd(x, y) == Rat(x[1] * y[2] + y[1] * x[2], x[2] * y[2])
RSub(x, y) == Rat(x[1] * y[2] - y[1] * x[2], x[2] * y[2])
RMul(x, y) == Rat(x[1] * y[1], x[2] * y[2])
RDivInt(x, n) == Rat(x[1], x[2] * n)
RLt(x, y) == x[1] * y[2] < y[1] * x[2]
RLe(x, y) == x[1] * y[2] <= y[1] * x[2]
RMax(x, y) == IF RLt(x, y) THEN y ELSE x
RMin(x, y) == IF RLt(y, x) THEN y ELSE x

RECURSIVE RSum(_)
RSum(s) == IF s = <<>> THEN <<0, 1>> ELSE RAdd(Head(s), RSum(Tail(s)))

RECURSIVE RMaxSeq(_)
RMaxSeq(s) == IF Len(s) = 1 THEN s[1] ELSE RMax(s[1], RMaxSeq(Tail(s)))

Zero == <<0, 1>>
One == <<1, 1>>

(***************************************************************************)
(* Characters and the str methods the matcher uses.                        *)
(***************************************************************************)
UpperSeq ==
    <<"A", "B", "C", "D", "E", "F", "G", "H", "I", "J", "K", "L", "M",
      "N", "O", "P", "Q", "R", "S", "T", "U", "V", "W", "X", "Y", "Z">>
LowerSeq ==
    <<"a", "b", "c", "d", "e", "f", "g", "h", "i", "j", "k", "l", "m",
      "n", "o", "p", "q", "r", "s", "t", "u", "v", "w", "x", "y", "z">>
Digits == {"0", "1", "2", "3", "4", "5", "6", "7", "8", "9"}
Letters == {UpperSeq[i] : i \in 1..26} \cup {LowerSeq[i] : i \in 1..26}

\* \s of the re module, and the separators of str.split()
IsSpace(c) == c \in {" ", "\t"}
\* \w of the re module: letters, digits and the underscore
IsWordChar(c) == c \in Letters \cup Digits \cup {"_"}

LowerChar(c) ==
    IF \E i \in 1..26 : UpperSeq[i] = c
    THEN LowerSeq[CHOOSE i \in 1..26 : UpperSeq[i] = c]
    ELSE c

\* str.lower()
RECURSIVE Lower(_)
Lower(s) == IF s = <<>> THEN <<>> ELSE <<LowerChar(Head(s))>> \o Lower(Tail(s))

IsPrefixAt(s, p, i) ==
    /\ i + Len(p) - 1 <= Len(s)
    /\ \A k \in 1..Len(p) : s[i + k - 1] = p[k]

\* a in b for two strings (substring test)
Contains(b, a) == \E i \in 1..(Len(b) + 1) : IsPrefixAt(b, a, i)

\* str.replace(old, new): every non-overlapping occurrence, left to right
RECURSIVE ReplaceFrom(_, _, _, _)
ReplaceFrom(s, old, new, i) ==
    IF i > Len(s) THEN <<>>
    ELSE IF IsPrefixAt(s, old, i)
         THEN new \o ReplaceFrom(s, old, new, i + Len(old))
         ELSE <<s[i]>> \o ReplaceFrom(s, old, new, i + 1)

Replace(s, old, new) ==
    IF Contains(s, old) THEN ReplaceFrom(s, old, new, 1) ELSE s

\* str.split(): the maximal runs of non-whitespace characters
RECURSIVE SplitFrom(_, _, _)
SplitFrom(s, i, cur) ==
    IF i > Len(s) THEN (IF cur = <<>> THEN <<>> ELSE <<cur>>)
    ELSE IF IsSpace(s[i])
         THEN (IF cur = <<>> THEN <<>> ELSE <<cur>>) \o SplitFrom(s, i + 1, <<>>)
         ELSE LET nc == Append(cur, s[i])
              IN  IF Len(nc) > 0 THEN SplitFrom(s, i + 1, nc) ELSE <<>>

Split(s) == SplitFrom(s, 1, <<>>)

\* sep.join(parts)
RECURSIVE Join(_, _)
Join(parts, sep) ==
    IF parts = <<>> THEN <<>>
    ELSE IF Len(parts) = 1 THEN parts[1]
         ELSE parts[1] \o sep \o Join(Tail(parts), sep)

Space == <<" ">>

\* membership of x in a Python list
InSeq(x, s) == \E i \in 1..Len(s) : s[i] = x

\* list.index(x)
IndexOf(x, s) == CHOOSE i \in 1..Len(s) : s[i] = x /\ \A k \in 1..(i - 1) : s[k] # x

SeqToSet(s) == {s[i] : i \in 1..Len(s)}

(***************************************************************************)
(* _normalize_text                                                         *)
(***************************************************************************)
KeepChar(c) == IsWordChar(c) \/ IsSpace(c)

\* re.sub(r'[^\w\s]', '', text)
StripPunct(s) == SelectSeq(s, KeepChar)

\* re.sub(r'\s+', ' ', text): each run of whitespace becomes one space
RECURSIVE CollapseSpacesFrom(_, _)
CollapseSpacesFrom(s, i) ==
    IF i > Len(s) THEN <<>>
    ELSE IF IsSpace(s[i])
         THEN (IF i > 1 /\ IsSpace(s[i - 1]) THEN <<>> ELSE Space)
              \o CollapseSpacesFrom(s, i + 1)
         ELSE <<s[i]>> \o CollapseSpacesFrom(s, i + 1)

CollapseSpaces(s) == CollapseSpacesFrom(s, 1)

\* str.strip()
RECURSIVE LStrip(_)
LStrip(s) == IF s # <<>> /\ IsSpace(Head(s)) THEN LStrip(Tail(s)) ELSE s

RECURSIVE RStrip(_)
RStrip(s) ==
    IF s # <<>> /\ IsSpace(s[Len(s)]) THEN RStrip(SubSeq(s, 1, Len(s) - 1)) ELSE s

Strip(s) == RStrip(LStrip(s))

\* whitespace collapsed before the punctuation is removed
NormalizeTextCollapseFirst(text) == Strip(StripPunct(CollapseSpaces(Lower(text))))

NormalizeText(text) == Strip(CollapseSpaces(StripPunct(Lower(text))))

(***************************************************************************)
(* _get_phonetic_key                                                       *)
(***************************************************************************)
\* the patterns dict, in insertion order
PhoneticPatterns ==
    << <<<<"p", "h">>, <<"f">>>>,
       <<<<"o", "u", "g", "h">>, <<"o">>>>,
       <<<<"g", "h">>, <<>>>>,
       <<<<"k", "n">>, <<"n">>>>,
       <<<<"w", "r">>, <<"r">>>>,
       <<<<"m", "b">>, <<"m">>>>,
       <<<<"c", "e">>, <<"s">>>>,
       <<<<"c", "i">>, <<"s">>>>,
       <<<<"c", "y">>, <<"s">>>>,
       <<<<"g", "e">>, <<"j">>>>,
       <<<<"g", "i">>, <<"j">>>>,
       <<<<"g", "y">>, <<"j">>>>,
       <<<<"c", "h", "r">>, <<"k", "r">>>>,
       <<<<"c", "k">>, <<"k">>>>,
       <<<<"c", "c">>, <<"k">>>>,
       <<<<"q", "u", "e">>, <<"k">>>>,
       <<<<"x">>, <<"k", "s">>>>,
       <<<<"w", "h">>, <<"w">>>>,
       <<<<"r", "h">>, <<"r">>>>,
       <<<<"a", "e">>, <<"e">>>>,
       <<<<"o", "e">>, <<"e">>>>,
       <<<<"e", "a", "u">>, <<"o">>>>,
       <<<<"a", "u">>, <<"o">>>>,
       <<<<"o", "u">>, <<"u">>>>,
       <<<<"o", "o">>, <<"u">>>>,
       <<<<"e", "e">>, <<"i">>>>,
       <<<<"e", "a">>, <<"i">>>>,
       <<<<"a", "i">>, <<"a", "y">>>>,
       <<<<"a", "y">>, <<"a", "y">>>>,
       <<<<"e", "y">>, <<"a", "y">>>>,
       <<<<"c", "h">>, <<"k">>>>,
       <<<<"t", "c", "h">>, <<"c", "h">>>>,
       <<<<"t", "h">>, <<"t">>>>,
       <<<<"s", "h">>, <<"s">>>>,
       <<<<"z", "h">>, <<"j">>>>,
       <<<<"d", "g">>, <<"j">>>> >>

\* the patterns applied from the last of the table to the first
RECURSIVE ApplyPatternsReversed(_, _, _)
ApplyPatternsReversed(s, table, k) ==
    IF k > Len(table) THEN s
    ELSE LET r == Replace(s, table[Len(table) + 1 - k][1], table[Len(table) + 1 - k][2])
         IN  IF Len(r) >= 0 THEN ApplyPatternsReversed(r, table, k + 1) ELSE r

\* for pattern, replacement in patterns.items(): result = result.replace(...)
\* (each step's result is evaluated before the next step uses it)
RECURSIVE ApplyPatterns(_, _, _)
ApplyPatterns(s, table, k) ==
    IF k > Len(table) THEN s
    ELSE LET r == Replace(s, table[k][1], table[k][2])
         IN  IF Len(r) >= 0 THEN ApplyPatterns(r, table, k + 1) ELSE r

\* re.sub(r'(.)\1+', r'\1', result): a run of one character becomes one
RECURSIVE CollapseRuns(_, _)
CollapseRuns(s, i) ==
    IF i > Len(s) THEN <<>>
    ELSE (IF i > 1 /\ s[i - 1] = s[i] THEN <<>> ELSE <<s[i]>>)
         \o CollapseRuns(s, i + 1)

IsVowel(c) == c \in {"a", "e", "i", "o", "u"}
NotVowel(c) == ~IsVowel(c)

\* first_char + re.sub(r'[aeiou]', '', rest)
KeyOfWord(word) == <<Head(word)>> \o SelectSeq(Tail(word), NotVowel)

RECURSIVE KeysOfWords(_)
KeysOfWords(words) ==
    IF words = <<>> THEN <<>>
    ELSE <<KeyOfWord(Head(words))>> \o KeysOfWords(Tail(words))

GetPhoneticKey(text) ==
    LET result == CollapseRuns(ApplyPatterns(Lower(text), PhoneticPatterns, 1), 1)
    IN  Join(KeysOfWords(Split(result)), Space)

(***************************************************************************)
(* difflib.SequenceMatcher(None, a, b).ratio(): no junk, and autojunk only *)
(* acts on sequences of 200 or more elements.                              *)
(***************************************************************************)
RECURSIVE CommonLen(_, _, _, _)
CommonLen(a, b, i, j) ==
    IF i <= Len(a) /\ j <= Len(b) /\ a[i] = b[j]
    THEN 1 + CommonLen(a, b, i + 1, j + 1)
    ELSE 0

\* find_longest_match: the longest block, earliest in a, then earliest in b
RECURSIVE LongestInRow(_, _, _, _, _)
LongestInRow(a, b, i, j, best) ==
    IF j > Len(b) THEN best
    ELSE LET k == CommonLen(a, b, i, j)
             nb == IF k > best[3] THEN <<i, j, k>> ELSE best
         IN  IF nb[3] >= 0 THEN LongestInRow(a, b, i, j + 1, nb) ELSE nb

RECURSIVE LongestMatchScan(_, _, _, _)
LongestMatchScan(a, b, i, best) ==
    IF i > Len(a) THEN best
    ELSE LET nb == LongestInRow(a, b, i, 1, best)
         IN  IF nb[3] >= 0 THEN LongestMatchScan(a, b, i + 1, nb) ELSE nb

FindLongestMatch(a, b) == LongestMatchScan(a, b, 1, <<1, 1, 0>>)

\* get_matching_blocks: the block, then the blocks left and right of it
RECURSIVE MatchedTotal(_, _)
MatchedTotal(a, b) ==
    IF a = <<>> \/ b = <<>> THEN 0
    ELSE LET m == FindLongestMatch(a, b)
         IN  IF m[3] = 0 THEN 0
             ELSE m[3]
                  + MatchedTotal(SubSeq(a, 1, m[1] - 1), SubSeq(b, 1, m[2] - 1))
                  + MatchedTotal(SubSeq(a, m[1] + m[3], Len(a)),
                                 SubSeq(b, m[2] + m[3], Len(b)))

\* _calculate_ratio: 2.0 * matches / length, and 1.0 when length is 0
SeqRatio(a, b) ==
    IF Len(a) + Len(b) = 0 THEN One
    ELSE Rat(2 * MatchedTotal(a, b), Len(a) + Len(b))

(***************************************************************************)
(* _generate_variations: the variation set of one dictionary word          *)
(***************************************************************************)
\* {'the', 'and', 'or', 'in', 'at', 'of'}
Stopwords ==
    { <<"t", "h", "e">>, <<"a", "n", "d">>, <<"o", "r">>,
      <<"i", "n">>, <<"a", "t">>, <<"o", "f">> }

\* the stt_replacements dict
SttReplacements ==
    << <<<<"v">>, <<"b">>>>, <<<<"m">>, <<"n">>>>, <<<<"p">>, <<"b">>>>,
       <<<<"t">>, <<"d">>>>, <<<<"g">>, <<"k">>>>, <<<<"c", "h">>, <<"j">>>>,
       <<<<"s", "h">>, <<"s">>>>, <<<<"z">>, <<"s">>>>, <<<<"f">>, <<"v">>>>,
       <<<<"b">>, <<"v">>>>, <<<<"d">>, <<"t">>>>, <<<<"j">>, <<"g">>>> >>

\* len(subset) > 2 and subset.lower() not in {'the', 'and', 'or', 'in', 'at', 'of'}
IsSignificantPhrase(subset) == Len(subset) > 2 /\ Lower(subset) \notin Stopwords

\* the new part put at the last position of the part
ReplaceLastPart(word_parts, part, new_part) ==
    [word_parts EXCEPT
       ![CHOOSE i \in 1..Len(word_parts) :
           word_parts[i] = part /\ \A k \in (i + 1)..Len(word_parts) : word_parts[k] # part]
         = new_part]

\* new_parts = word_parts.copy(); new_parts[word_parts.index(part)] = new_part
ReplaceFirstPart(word_parts, part, new_part) ==
    [word_parts EXCEPT ![IndexOf(part, word_parts)] = new_part]

SeparatorVariations(word_parts) ==
    { Join(word_parts, <<>>), Join(word_parts, <<"-">>), Join(word_parts, <<"_">>) }

SubPhraseVariations(word_parts) ==
    { Join(SubSeq(word_parts, i, j), Space) :
        <<i, j>> \in { p \in (1..Len(word_parts)) \X (1..Len(word_parts)) :
                         /\ p[1] <= p[2]
                         /\ IsSignificantPhrase(Join(SubSeq(word_parts, p[1], p[2]), Space)) } }

SignificantParts(word_parts) ==
    { word_parts[i] : i \in { k \in 1..Len(word_parts) : IsSignificantPhrase(word_parts[k]) } }

\* the stt loop: one rule applied to one part
SttVariationsOf(word_parts, part, rule) ==
    IF Contains(Lower(part), rule[1])
    THEN LET new_part == Replace(Lower(part), rule[1], rule[2])
         IN  {new_part} \cup
             (IF Len(word_parts) > 1
              THEN {Join(ReplaceFirstPart(word_parts, part, new_part), Space)}
              ELSE {})
    ELSE {}

SttVariations(word_parts) ==
    UNION { SttVariationsOf(word_parts, word_parts[i], SttReplacements[r]) :
              <<i, r>> \in (1..Len(word_parts)) \X (1..Len(SttReplacements)) }

\* the variation set with the phonetic key added for compound words only
VariationSetKeyOfCompound(word) ==
    LET normalized_word == NormalizeText(word)
        word_parts == Split(normalized_word)
    IN  {Lower(word), normalized_word}
        \cup (IF Len(word_parts) > 1
              THEN SeparatorVariations(word_parts)
                   \cup SubPhraseVariations(word_parts)
                   \cup SignificantParts(word_parts)
                   \cup {GetPhoneticKey(normalized_word)}
              ELSE {})
        \cup SttVariations(word_parts)

VariationSet(word) ==
    LET normalized_word == NormalizeText(word)
        word_parts == Split(normalized_word)
    IN  {Lower(word), normalized_word}
        \cup (IF Len(word_parts) > 1
              THEN SeparatorVariations(word_parts)
                   \cup SubPhraseVariations(word_parts)
                   \cup SignificantParts(word_parts)
              ELSE {})
        \cup {GetPhoneticKey(normalized_word)}
        \cup SttVariations(word_parts)

(***************************************************************************)
(* list(word_variations): the iteration order of a Python set of str is    *)
(* not specified (it changes with the hash seed).  The model builds the    *)
(* list in one of two orders: ascending or descending by code point.       *)
(***************************************************************************)
CharOrder ==
    <<"\t", " ", "!", "-", "0", "1", "2", "3", "4", "5", "6", "7", "8", "9">>
    \o UpperSeq \o <<"_">> \o LowerSeq
Chars == SeqToSet(CharOrder)
CharRank == [c \in Chars |-> CHOOSE i \in 1..Len(CharOrder) : CharOrder[i] = c]

RECURSIVE StrLess(_, _)
StrLess(a, b) ==
    IF b = <<>> THEN FALSE
    ELSE IF a = <<>> THEN TRUE
    ELSE IF Head(a) = Head(b) THEN StrLess(Tail(a), Tail(b))
    ELSE CharRank[Head(a)] < CharRank[Head(b)]

RECURSIVE Ascending(_)
Ascending(S) ==
    IF S = {} THEN <<>>
    ELSE LET least == CHOOSE x \in S : \A y \in S : x = y \/ StrLess(x, y)
         IN  <<least>> \o Ascending(S \ {least})

RECURSIVE Reverse(_)
Reverse(s) == IF s = <<>> THEN <<>> ELSE Append(Reverse(Tail(s)), Head(s))

Orders == {"ascending", "descending"}

ListOf(S, order) == IF order = "ascending" THEN Ascending(S) ELSE Reverse(Ascending(S))

(***************************************************************************)
(* The inputs of the model: the records of the dictionary file and the     *)
(* query texts.                                                            *)
(***************************************************************************)
MaxRecords == 2

WordPool ==
    { <<"t", "e", "a", " ", "b", "a", "r">>,
      <<"t", "e", "a", " ", "s", "h", "o", "p">>,
      <<"l", "u", "l", "u">>,
      <<"L", "u", "-", "L", "u">>,
      <<"b", "o", " ", "a", "n", "d", " ", "b", "o">>,
      <<"!", "!">>,
      <<>> }

QueryPool ==
    { <<"t", "e", "a">>,
      <<"b", "a", "r">>,
      <<"t", "e", "a", "b", "a", "r">>,
      <<"T", "e", "a", " ", " ", "B", "a", "r", "!">>,
      <<"t", "e", "a", " ", "x">>,
      <<"c", "a", "f", "e", " ", "b", "a", "r">>,
      <<"l", "u", "l", "a">>,
      <<"l", "u", "x">>,
      <<"l", "y", "l", "y">>,
      <<"t", "b">>,
      <<"x", "y", "z">>,
      <<"!", "!">>,
      <<" ", "\t">>,
      <<>> }

\* a record of the JSON file: has_word is whether it has the key 'word'
WordRecord(w) == [has_word |-> TRUE, word |-> w]
NoWordRecord == [has_word |-> FALSE, word |-> <<>>]
RecordPool == {WordRecord(w) : w \in WordPool} \cup {NoWordRecord}

SeqsUpTo(S, n) == UNION {[1..k -> S] : k \in 0..n}

(***************************************************************************)
(* Tables of the values the pure functions take on the pools (each is      *)
(* the function itself, looked up instead of computed again).              *)
(***************************************************************************)
\* a table is a set of <<argument, value>> pairs
InTable(table, arg) == \E r \in table : r[1] = arg
Lookup(table, arg) == (CHOOSE r \in table : r[1] = arg)[2]
\* the tabled value where the table applies and has the argument
Tabled(table, arg, applies, value) ==
    IF applies /\ InTable(table, arg) THEN Lookup(table, arg) ELSE value

NormalizedQueries == {NormalizeText(q) : q \in QueryPool}

VariationSets == {<<w, VariationSet(w)>> : w \in WordPool}

VariationLists ==
    {<<p, ListOf(Lookup(VariationSets, p[1]), p[2])>> : p \in WordPool \X Orders}

VariationListOf(word, order) ==
    Tabled(VariationLists, <<word, order>>, TRUE, ListOf(VariationSet(word), order))

KeyedStrings ==
    LET texts == NormalizedQueries
                 \cup {Lower(w) : w \in WordPool}
                 \cup {NormalizeText(w) : w \in WordPool}
                 \cup UNION {r[2] : r \in VariationSets}
    IN  texts \cup UNION {SeqToSet(Split(t)) : t \in texts}

PhoneticKeys == {<<s, GetPhoneticKey(s)>> : s \in KeyedStrings}

PhoneticKey(text) == Tabled(PhoneticKeys, text, TRUE, GetPhoneticKey(text))

(***************************************************************************)
(* The literals of the scorer and of match_text.                           *)
(***************************************************************************)
\* self.generic_terms as __init__ sets it
GenericTermsInit ==
    { <<"b", "a", "r">>, <<"s", "t", "o", "r", "e">>, <<"s", "h", "o", "p">>,
      <<"c", "o", "f", "f", "e", "e">>, <<"j", "u", "i", "c", "e">>,
      <<"r", "e", "s", "t", "a", "u", "r", "a", "n", "t">>,
      <<"c", "a", "f", "e">>, <<"m", "a", "r", "k", "e", "t">> }

SubstrSim == <<9, 10>>          \* substr_sim = 0.9
GenericWeight == <<1, 2>>       \* weight = 0.5 if input_word in self.generic_terms
SigThreshold == <<7, 10>>       \* sig_similarity > 0.7
OrderBoost == <<1, 10>>         \* word_similarity + 0.1, similarity + 0.1
GenericPenalty == <<1, 2>>      \* string_similarity *= 0.5 ...
GoodSigMatch == <<8, 10>>       \* if similarity < 0.8
SharedPenalty == <<1, 20>>      \* length_penalty = 0.05
PenaltyPerWord == <<1, 10>>     \* length_penalty = 0.1 * abs(...)
SubsetBoost == <<1, 10>>        \* similarity + 0.1
AcceptFloor == <<1, 2>>         \* best_similarity >= 0.5
PartialHigh == <<8, 10>>
PartialMedium == <<6, 10>>
PhoneticHigh == <<7, 10>>
PhoneticMedium == <<5, 10>>

\* Python's None where a str is expected: no str has an element of 4 characters
None == <<"None">>

\* [w for w in words if w not in terms]
Without(words, terms) == SelectSeq(words, LAMBDA w : w \notin terms)

(***************************************************************************)
(* _calculate_word_similarity                                              *)
(***************************************************************************)
CalculateWordSimilarity(word1, word2) ==
    RMax(RMax(SeqRatio(word1, word2),
              SeqRatio(PhoneticKey(word1), PhoneticKey(word2))),
         IF /\ Len(word1) > 3 /\ Len(word2) > 3
            /\ (Contains(word2, word1) \/ Contains(word1, word2))
         THEN SubstrSim ELSE Zero)

\* the generator self._calculate_word_similarity(word, d) for d in dict_words
RECURSIVE WordSimilarities(_, _)
WordSimilarities(word, dict_words) ==
    IF dict_words = <<>> THEN <<>>
    ELSE <<CalculateWordSimilarity(word, Head(dict_words))>>
         \o WordSimilarities(word, Tail(dict_words))

\* max(...) of it, for a non-empty dict_words
BestWordMatch(word, dict_words) == RMaxSeq(WordSimilarities(word, dict_words))

\* the list of best matches of each input word, each times its weight
RECURSIVE WordMatches(_, _, _)
WordMatches(input_words, dict_words, generic) ==
    IF input_words = <<>> THEN <<>>
    ELSE <<RMul(BestWordMatch(Head(input_words), dict_words),
                IF Head(input_words) \in generic THEN GenericWeight ELSE One)>>
         \o WordMatches(Tail(input_words), dict_words, generic)

\* sum(matches) / len(matches)
Mean(matches) == RDivInt(RSum(matches), Len(matches))

\* the significant-word block, shared by _calculate_similarity (lines 223-241)
\* and match_text (lines 326-346): the mean of the best matches, and whether
\* the order boost applies
SigSimilarity(significant_input, significant_dict) ==
    Mean(WordMatches(significant_input, significant_dict, {}))

InOrder(significant_input, significant_dict) ==
    /\ Len(significant_input) > 1
    /\ Len(significant_dict) > 1
    /\ \/ Contains(Join(significant_dict, Space), Join(significant_input, Space))
       \/ Contains(Join(significant_input, Space), Join(significant_dict, Space))

(***************************************************************************)
(* _calculate_similarity: [raised, sim, type]; raised is the ValueError of *)
(* max() over an empty dict_words at line 208.                             *)
(***************************************************************************)
Raised == [raised |-> TRUE, sim |-> Zero, type |-> "None"]
Scored(sim, type) == [raised |-> FALSE, sim |-> sim, type |-> type]

\* lines 232-241: word_similarity after the significant-word boost
SigBoosted(word_similarity, sig_similarity, in_order) ==
    IF RLt(SigThreshold, sig_similarity)
    THEN (IF in_order
          THEN RMin(One, RAdd(RMax(word_similarity, sig_similarity), OrderBoost))
          ELSE RMax(word_similarity, sig_similarity))
    ELSE word_similarity

\* lines 220-241
SigBoost(word_similarity, significant_input, significant_dict) ==
    IF significant_input # <<>> /\ significant_dict # <<>>
    THEN SigBoosted(word_similarity,
                    SigSimilarity(significant_input, significant_dict),
                    InOrder(significant_input, significant_dict))
    ELSE word_similarity

\* lines 199-241, for a non-empty input_words and dict_words
WordSimilarity(input_words, dict_words, generic) ==
    SigBoost(Mean(WordMatches(input_words, dict_words, generic)),
             Without(input_words, generic), Without(dict_words, generic))

\* the maximum with the type Phonetic when the phonetic score ties with it
MaxSimilarityTiesPhonetic(string_similarity, phonetic_similarity, word_similarity) ==
    Scored(RMax(RMax(string_similarity, phonetic_similarity), word_similarity),
           IF RMax(RMax(string_similarity, phonetic_similarity), word_similarity)
              = phonetic_similarity
           THEN "Phonetic" ELSE "Partial")

\* lines 249-256: the maximum and its type
MaxSimilarity(string_similarity, phonetic_similarity, word_similarity) ==
    Scored(RMax(RMax(string_similarity, phonetic_similarity), word_similarity),
           IF RMax(RMax(string_similarity, phonetic_similarity), word_similarity)
              = string_similarity
           THEN "Partial" ELSE "Phonetic")

\* the three similarities without the all-generic penalty
Unpenalised(factor, string_similarity, phonetic_similarity, word_similarity) ==
    MaxSimilarity(string_similarity, phonetic_similarity, word_similarity)

\* the all-generic penalty on the word-level similarity only
PenalisedWordOnly(factor, string_similarity, phonetic_similarity, word_similarity) ==
    MaxSimilarity(string_similarity, phonetic_similarity,
                  RMul(word_similarity, factor))

\* lines 243-247: the three similarities after the all-generic penalty
Penalised(factor, string_similarity, phonetic_similarity, word_similarity) ==
    MaxSimilarity(RMul(string_similarity, factor),
                  RMul(phonetic_similarity, factor),
                  RMul(word_similarity, factor))

\* lines 189-256, on the lower-cased texts and their words
SimilarityOfWords(generic, input_text, variation, input_words, dict_words) ==
    IF input_text = variation THEN Scored(One, "Exact")
    ELSE IF input_words # <<>> /\ dict_words = <<>> THEN Raised
    ELSE Penalised(IF \A i \in 1..Len(input_words) : input_words[i] \in generic
                   THEN GenericPenalty ELSE One,
                   SeqRatio(input_text, variation),
                   SeqRatio(PhoneticKey(input_text), PhoneticKey(variation)),
                   IF input_words # <<>>
                   THEN WordSimilarity(input_words, dict_words, generic)
                   ELSE Zero)

\* lines 181-196
SimilarityOfLowered(generic, input_text, dict_word, variation) ==
    SimilarityOfWords(generic, input_text, variation,
                      Split(input_text), Split(dict_word))

CalculateSimilarity(generic, input_text, dict_word, variation) ==
    SimilarityOfLowered(generic, Lower(input_text), Lower(dict_word),
                        Lower(variation))

(***************************************************************************)
(* _calculate_confidence                                                   *)
(***************************************************************************)
\* the classifier with the Partial thresholds in the Phonetic row too
ConfidenceOneTable(similarity, match_type) ==
    IF match_type = "Exact" THEN "High"
    ELSE IF RLe(PartialHigh, similarity) THEN "High"
    ELSE IF RLe(PartialMedium, similarity) THEN "Medium"
    ELSE "Low"

\* the classifier with Medium and Low exchanged in the Partial row
ConfidenceRowExchanged(similarity, match_type) ==
    IF match_type = "Exact" THEN "High"
    ELSE IF match_type = "Partial"
         THEN (IF RLe(PartialHigh, similarity) THEN "High"
               ELSE IF RLe(PartialMedium, similarity) THEN "Low"
               ELSE "Medium")
         ELSE (IF RLe(PhoneticHigh, similarity) THEN "High"
               ELSE IF RLe(PhoneticMedium, similarity) THEN "Medium"
               ELSE "Low")

CalculateConfidence(similarity, match_type) ==
    IF match_type = "Exact" THEN "High"
    ELSE IF match_type = "Partial"
         THEN (IF RLe(PartialHigh, similarity) THEN "High"
               ELSE IF RLe(PartialMedium, similarity) THEN "Medium"
               ELSE "Low")
         ELSE (IF RLe(PhoneticHigh, similarity) THEN "High"
               ELSE IF RLe(PhoneticMedium, similarity) THEN "Medium"
               ELSE "Low")

(***************************************************************************)
(* match_text, one dictionary entry at a time.  An entry of the index is   *)
(* [word, variations]: a key of self.word_variations and its list.         *)
(***************************************************************************)
\* lines 299-306: the first-token rule of the exact-match scan
FirstTokenRule(input_text, input_words, dict_words) ==
    IF Len(input_words) = 1 /\ Len(dict_words) > 1
    THEN dict_words[1] = input_text
    ELSE TRUE

\* lines 293-310: whether the exact-match scan returns this entry
ExactAccepts(input_text, input_words, entry) ==
    /\ InSeq(input_text, entry.variations)
    /\ FirstTokenRule(input_text, input_words, Split(NormalizeText(entry.word)))

\* lines 332-346: the similarity and type the significant words give
AttemptOf(sig_similarity, in_order) ==
    IF RLt(SigThreshold, sig_similarity)
    THEN Scored(IF in_order THEN RMin(One, RAdd(sig_similarity, OrderBoost))
                ELSE sig_similarity,
                "Partial")
    ELSE Scored(Zero, "None")

\* lines 326-346: the significant-word attempt
SignificantAttempt(significant_input_words, significant_dict_words) ==
    IF significant_dict_words # <<>> /\ significant_input_words # <<>>
    THEN AttemptOf(SigSimilarity(significant_input_words, significant_dict_words),
                   InOrder(significant_input_words, significant_dict_words))
    ELSE Scored(Zero, "None")

\* lines 350-354: the scan of the variations from position k on, keeping the
\* first strictly greater similarity; a raise of _calculate_similarity ends it
RECURSIVE ScanVariations(_, _, _, _, _, _)
\* lines 352-354: cur after the variation at k has scored var
ScanNext(generic, input_text, dict_word, variations, k, cur, var) ==
    IF var.raised THEN Raised
    ELSE ScanVariations(generic, input_text, dict_word, variations, k + 1,
                        IF RLt(cur.sim, var.sim) THEN var ELSE cur)

ScanVariations(generic, input_text, dict_word, variations, k, cur) ==
    IF k > Len(variations) THEN cur
    ELSE ScanNext(generic, input_text, dict_word, variations, k, cur,
                  CalculateSimilarity(generic, input_text, dict_word,
                                      variations[k]))

\* line 349: the scan runs unless the attempt gave 0.8 or more
Scanned(generic, input_text, entry, attempt) ==
    IF RLt(attempt.sim, GoodSigMatch)
    THEN ScanVariations(generic, input_text, entry.word, entry.variations, 1,
                        attempt)
    ELSE attempt

\* lines 357-363
LengthPenalty(input_words, dict_words, significant_dict_words) ==
    IF \/ InSeq(dict_words[1], input_words)
       \/ \E i \in 1..Len(input_words) : InSeq(input_words[i], significant_dict_words)
    THEN SharedPenalty
    ELSE RMul(PenaltyPerWord, <<Abs(Len(dict_words) - Len(input_words)), 1>>)

\* lines 357-363: similarity after the length penalty
AfterPenalty(similarity, input_words, dict_words, significant_dict_words) ==
    IF Len(dict_words) > 1
    THEN RMax(Zero, RSub(similarity,
                         LengthPenalty(input_words, dict_words,
                                       significant_dict_words)))
    ELSE similarity

\* the subset boost without its ceiling
AfterBoostUncapped(similarity, input_words, dict_words) ==
    IF SeqToSet(input_words) \subseteq SeqToSet(dict_words)
    THEN RAdd(similarity, SubsetBoost)
    ELSE similarity

\* lines 366-369: similarity after the subset boost
AfterBoost(similarity, input_words, dict_words) ==
    IF SeqToSet(input_words) \subseteq SeqToSet(dict_words)
    THEN RMin(One, RAdd(similarity, SubsetBoost))
    ELSE similarity

\* lines 357-369 applied to what lines 322-354 gave
Adjusted(scanned, input_words, dict_words, significant_dict_words) ==
    IF scanned.raised THEN Raised
    ELSE Scored(AfterBoost(AfterPenalty(scanned.sim, input_words, dict_words,
                                        significant_dict_words),
                           input_words, dict_words),
                scanned.type)

\* lines 314-369 for the words of the entry
EntryScoreOfWords(generic, input_text, input_words, entry, dict_words) ==
    Adjusted(Scanned(generic, input_text, entry,
                     SignificantAttempt(Without(input_words, generic),
                                        Without(dict_words, generic))),
             input_words, dict_words, Without(dict_words, generic))

\* lines 314-369: the final similarity and the match type of one entry
EntryScore(generic, input_text, input_words, entry) ==
    EntryScoreOfWords(generic, input_text, input_words, entry,
                      Split(NormalizeText(entry.word)))

PoolEntries == { [word |-> r[1][1], variations |-> r[2]] : r \in VariationLists }

EntryScores ==
    { <<p, EntryScore(GenericTermsInit, p[1], Split(p[1]), p[2])>> :
        p \in NormalizedQueries \X PoolEntries }

EntryScoreOf(generic, input_text, input_words, entry) ==
    Tabled(EntryScores, <<input_text, entry>>,
           generic = GenericTermsInit /\ input_words = Split(input_text),
           EntryScore(generic, input_text, input_words, entry))

(***************************************************************************)
(* The engine and its callers.                                             *)
(***************************************************************************)
vars ==
    <<source, engine, dictionary, word_variations, generic_terms, build_error, calls,
      batch, jobs, reports>>
pipeline == <<batch, jobs, reports>>
shared ==
    <<source, engine, dictionary, word_variations, generic_terms, build_error,
      batch, jobs, reports>>

Threads == {"t1", "t2"}
MainThread == "t1"

Pending == [kind |-> "Pending", word |-> None, type |-> "None", confidence |-> "None"]
NoMatch == [kind |-> "NoMatch", word |-> None, type |-> "None", confidence |-> "None"]
ValueError == [kind |-> "Raised", word |-> None, type |-> "None", confidence |-> "None"]
Match(word, type, confidence) ==
    [kind |-> "Match", word |-> word, type |-> type, confidence |-> confidence]

\* a frame before the call: best_match = None, best_similarity = 0,
\* best_match_type = None; finals records the final similarity of each entry
\* the best-candidate scan has scored
IdleFrame ==
    [pc |-> "idle", query |-> <<>>, input_text |-> <<>>, input_words |-> <<>>,
     i |-> 0, best_match |-> None, best_similarity |-> Zero,
     best_match_type |-> "None", finals |-> <<>>, result |-> Pending]

\* a call that has returned or raised
Finished(f) == f.pc \in {"returned", "raised"}

\* _load_dictionary: [item['word'] for item in data]; a record without the
\* key raises KeyError
LoadRaises(data) == \E k \in 1..Len(data) : ~data[k].has_word

RECURSIVE LoadDictionary(_)
LoadDictionary(data) ==
    IF data = <<>> THEN <<>> ELSE <<Head(data).word>> \o LoadDictionary(Tail(data))

\* _generate_variations: variations[word] = list(word_variations); a word
\* that occurs again keeps its first position in the dict
RECURSIVE GenerateVariations(_, _, _)
GenerateVariations(words, order, done) ==
    IF words = <<>> THEN done
    ELSE GenerateVariations(
             Tail(words), order,
             IF \E k \in 1..Len(done) : done[k].word = Head(words)
             THEN done
             ELSE Append(done, [word |-> Head(words),
                                variations |-> VariationListOf(Head(words), order)]))

\* match_text, lines 284-289: the frame on entry to the exact-match scan
BeginFrame(q) ==
    [IdleFrame EXCEPT !.pc = "exact", !.query = q,
                      !.input_text = NormalizeText(q),
                      !.input_words = Split(NormalizeText(q)),
                      !.i = 1]

\* the exact-match scan that returns the last entry it accepts
ExactNextLast(index, f) ==
    IF f.i > Len(index) THEN [f EXCEPT !.pc = "best", !.i = 1]
    ELSE IF /\ ExactAccepts(f.input_text, f.input_words, index[f.i])
            /\ \A j \in (f.i + 1)..Len(index) :
                 ~ExactAccepts(f.input_text, f.input_words, index[j])
         THEN [f EXCEPT !.pc = "returned",
                        !.result = Match(index[f.i].word, "Exact", "High")]
         ELSE [f EXCEPT !.i = f.i + 1]

\* match_text, lines 292-310: the frame after one entry of the exact-match scan
ExactNext(index, f) ==
    IF f.i > Len(index) THEN [f EXCEPT !.pc = "best", !.i = 1]
    ELSE IF ExactAccepts(f.input_text, f.input_words, index[f.i])
         THEN [f EXCEPT !.pc = "returned",
                        !.result = Match(index[f.i].word, "Exact", "High")]
         ELSE [f EXCEPT !.i = f.i + 1]

\* the running best replaced by a final score that is greater or equal
AfterScoreLastWins(f, entry, score) ==
    IF score.raised
    THEN [f EXCEPT !.pc = "raised", !.result = ValueError]
    ELSE IF RLe(f.best_similarity, score.sim)
         THEN [f EXCEPT !.best_similarity = score.sim,
                        !.best_match = entry.word,
                        !.best_match_type = score.type,
                        !.finals = Append(f.finals, score.sim),
                        !.i = f.i + 1]
         ELSE [f EXCEPT !.finals = Append(f.finals, score.sim),
                        !.i = f.i + 1]

\* lines 371-374: the frame after the entry has scored
AfterScore(f, entry, score) ==
    IF score.raised
    THEN [f EXCEPT !.pc = "raised", !.result = ValueError]
    ELSE IF RLt(f.best_similarity, score.sim)
         THEN [f EXCEPT !.best_similarity = score.sim,
                        !.best_match = entry.word,
                        !.best_match_type = score.type,
                        !.finals = Append(f.finals, score.sim),
                        !.i = f.i + 1]
         ELSE [f EXCEPT !.finals = Append(f.finals, score.sim),
                        !.i = f.i + 1]

\* match_text, lines 313-374: the frame after one entry of the best-candidate scan
BestNext(index, generic, f) ==
    AfterScore(f, index[f.i],
               EntryScoreOf(generic, f.input_text, f.input_words, index[f.i]))

\* `if best_match`: None and the empty str are false
Truthy(best_match) == best_match # None /\ best_match # <<>>

\* the decision without the 0.5 floor
DecisionWithoutFloor(best_match, best_similarity, best_match_type) ==
    IF Truthy(best_match)
    THEN Match(best_match, best_match_type,
               CalculateConfidence(best_similarity, best_match_type))
    ELSE NoMatch

\* the decision without its condition
DecisionUnguarded(best_match, best_similarity, best_match_type) ==
    Match(best_match, best_match_type,
          CalculateConfidence(best_similarity, best_match_type))

\* match_text, lines 376-384
Decision(best_match, best_similarity, best_match_type) ==
    IF Truthy(best_match) /\ RLe(AcceptFloor, best_similarity)
    THEN Match(best_match, best_match_type,
               CalculateConfidence(best_similarity, best_match_type))
    ELSE NoMatch

\* the frame after lines 376-384
Decided(f) ==
    [f EXCEPT !.pc = "returned",
              !.result = Decision(f.best_match, f.best_similarity,
                                  f.best_match_type)]

\* match_text run from frame f to its end, with no other call in between
RECURSIVE RunFrame(_, _, _)
RunFrame(index, generic, f) ==
    IF f.pc = "exact" THEN RunFrame(index, generic, ExactNext(index, f))
    ELSE IF f.pc = "best"
         THEN RunFrame(index, generic,
                       IF f.i <= Len(index) THEN BestNext(index, generic, f)
                       ELSE Decided(f))
         ELSE f

\* what match_text(q) gives on the index: a result, or the ValueError
MatchText(index, generic, q) == RunFrame(index, generic, BeginFrame(q)).result

\* the largest batch of files handed to process_batch
MaxFiles == 3

\* audio files: a directory (or bucket prefix), and a base name in two parts
FilePool ==
    { [dir |-> "x", stem |-> "a", ext |-> ".mp3"],
      [dir |-> "y", stem |-> "a", ext |-> ".mp3"],
      [dir |-> "x", stem |-> "b", ext |-> ".mp3"] }

\* os.path.basename
Basename(f) == [stem |-> f.stem, ext |-> f.ext]

\* the job name of a file name: the name without its ".mp3"
JobName(filename) == <<"transcribe_job", filename.stem>>

JobNames == {JobName(Basename(f)) : f \in FilePool}

\* no process_batch is active, no job exists, nothing was reported
NoBatch ==
    [pc |-> "none", mode |-> "none", is_retry |-> FALSE, files |-> <<>>,
     task |-> <<>>, queue |-> <<>>, done |-> <<>>,
     results |-> <<>>, retryable_uris |-> <<>>]

\* no response of the Lambda yet
NoResponse == [statusCode |-> 0, completed |-> <<>>, retryable_uris |-> <<>>]

\* process_transcriptions has not run
NoAggregate == [done |-> FALSE, successful |-> {}, failed_files |-> <<>>, count |-> 0]

NoReports == [initial |-> NoResponse, retry |-> NoResponse, aggregate |-> NoAggregate]

PipelineIdle ==
    /\ batch = NoBatch
    /\ jobs = [n \in JobNames |-> "NONE"]
    /\ reports = NoReports

Init ==
    /\ source \in SeqsUpTo(RecordPool, MaxRecords)
    /\ engine = "unbuilt"
    /\ dictionary = <<>>
    /\ word_variations = <<>>
    /\ generic_terms = {}
    /\ build_error = "None"
    /\ calls = [t \in Threads |-> IdleFrame]
    /\ PipelineIdle

\* WordMatcher.__init__
Construct ==
    /\ engine = "unbuilt"
    /\ IF LoadRaises(source)
       THEN /\ engine' = "failed"
            /\ build_error' = "KeyError"
            /\ UNCHANGED <<dictionary, word_variations, generic_terms>>
       ELSE \E order \in Orders :
              /\ engine' = "built"
              /\ build_error' = "None"
              /\ dictionary' = LoadDictionary(source)
              /\ word_variations' = GenerateVariations(LoadDictionary(source), order, <<>>)
              /\ generic_terms' = GenericTermsInit
    /\ UNCHANGED <<source, calls, batch, jobs, reports>>

\* match_text, lines 284-289
Begin(t, q) ==
    /\ engine = "built"
    /\ calls[t].pc = "idle"
    /\ calls' = [calls EXCEPT ![t] = BeginFrame(q)]
    /\ UNCHANGED shared

\* match_text, lines 292-310: one entry of the exact-match scan
ExactStep(t) ==
    /\ calls[t].pc = "exact"
    /\ calls' = [calls EXCEPT ![t] = ExactNext(word_variations, calls[t])]
    /\ UNCHANGED shared

\* a best-candidate step that also adds the words of the query to
\* self.generic_terms
BestStepWriting(t) ==
    /\ calls[t].pc = "best"
    /\ calls[t].i <= Len(word_variations)
    /\ calls' = [calls EXCEPT ![t] = BestNext(word_variations, generic_terms, calls[t])]
    /\ generic_terms' = generic_terms \cup SeqToSet(calls[t].input_words)
    /\ UNCHANGED <<source, engine, dictionary, word_variations, build_error,
                   batch, jobs, reports>>

\* match_text, lines 313-374: one entry of the best-candidate scan
BestStep(t) ==
    /\ calls[t].pc = "best"
    /\ calls[t].i <= Len(word_variations)
    /\ calls' = [calls EXCEPT ![t] = BestNext(word_variations, generic_terms, calls[t])]
    /\ UNCHANGED shared

\* match_text, lines 376-384
Decide(t) ==
    /\ calls[t].pc = "best"
    /\ calls[t].i > Len(word_variations)
    /\ calls' = [calls EXCEPT ![t] = Decided(calls[t])]
    /\ UNCHANGED shared

\* the caller takes the result (or the exception); the frame is gone
Return(t) ==
    /\ Finished(calls[t])
    /\ calls' = [calls EXCEPT ![t] = IdleFrame]
    /\ UNCHANGED shared

\* one caller at a time
Next ==
    \/ Construct
    \/ \E q \in QueryPool : Begin(MainThread, q)
    \/ ExactStep(MainThread)
    \/ BestStep(MainThread)
    \/ Decide(MainThread)
    \/ Return(MainThread)

Spec == Init /\ [][Next]_vars

(***************************************************************************)
(* Concurrent callers of one engine: every thread runs match_text, a step  *)
(* of one between any two steps of another.                                *)
(***************************************************************************)
ConcWordPool ==
    { <<"t", "e", "a", " ", "b", "a", "r">>,
      <<"t", "e", "a", " ", "s", "h", "o", "p">>,
      <<"l", "u", "l", "u">>,
      <<>> }

ConcQueryPool ==
    { <<"t", "e", "a">>, <<"b", "a", "r">>, <<"l", "u", "x">>,
      <<"t", "e", "a", " ", "x">> }

InitConc ==
    /\ source \in SeqsUpTo({WordRecord(w) : w \in ConcWordPool}, MaxRecords)
    /\ engine = "unbuilt"
    /\ dictionary = <<>>
    /\ word_variations = <<>>
    /\ generic_terms = {}
    /\ build_error = "None"
    /\ calls = [t \in Threads |-> IdleFrame]
    /\ PipelineIdle

NextConc ==
    \/ Construct
    \/ \E t \in Threads, q \in ConcQueryPool : Begin(t, q)
    \/ \E t \in Threads : ExactStep(t)
    \/ \E t \in Threads : BestStep(t)
    \/ \E t \in Threads : Decide(t)
    \/ \E t \in Threads : Return(t)

SpecConc == InitConc /\ [][NextConc]_vars


(***************************************************************************)
(* Callers of _normalize_text: a thread normalizes a text and then         *)
(* normalizes what it got.  The frame holds the argument of the first call *)
(* in query and the last value returned in input_text.                     *)
(***************************************************************************)
MaxTextLen == 5

\* a lowercase letter, an uppercase letter, a digit, two kinds of
\* whitespace, the underscore and a punctuation mark
TextAlphabet == {"a", "B", "1", " ", "\t", "_", "-"}

TextPool == SeqsUpTo(TextAlphabet, MaxTextLen)

\* text = self._normalize_text(x)
Normalize(t, x) ==
    /\ calls[t].pc = "idle"
    /\ calls' = [calls EXCEPT ![t] =
                   [IdleFrame EXCEPT !.pc = "normalized", !.query = x,
                                     !.input_text = NormalizeText(x)]]
    /\ UNCHANGED shared

\* text = self._normalize_text(text)
Renormalize(t) ==
    /\ calls[t].pc = "normalized"
    /\ calls' = [calls EXCEPT ![t].pc = "renormalized",
                              ![t].input_text = NormalizeText(calls[t].input_text)]
    /\ UNCHANGED shared

\* the caller drops the value
Discard(t) ==
    /\ calls[t].pc \in {"normalized", "renormalized", "keyed", "classified",
                       "scored", "penalised"}
    /\ calls' = [calls EXCEPT ![t] = IdleFrame]
    /\ UNCHANGED shared

InitText ==
    /\ source = <<>>
    /\ engine = "unbuilt"
    /\ dictionary = <<>>
    /\ word_variations = <<>>
    /\ generic_terms = {}
    /\ build_error = "None"
    /\ calls = [t \in Threads |-> IdleFrame]
    /\ PipelineIdle

NextText ==
    \/ Construct
    \/ /\ engine = "built"
       /\ calls[MainThread].pc = "idle"
       /\ \E x \in TextPool : Normalize(MainThread, x)
    \/ Renormalize(MainThread)
    \/ Discard(MainThread)

SpecText == InitText /\ [][NextText]_vars

(***************************************************************************)
(* A caller that replaces its engine: matcher = WordMatcher(data) is       *)
(* evaluated again while an engine exists.  __init__ fills a new object;   *)
(* the name is bound to it only when __init__ returns, and an exception    *)
(* leaves the name bound to the engine built earlier.  Threads also call   *)
(* _get_phonetic_key, whose frame holds the argument in query and the key  *)
(* in input_text.                                                          *)
(***************************************************************************)
RebuildSources ==
    { <<>>,
      <<WordRecord(<<"t", "e", "a", " ", "b", "a", "r">>)>>,
      <<WordRecord(<<"l", "u", "l", "u">>)>>,
      <<WordRecord(<<"l", "u", "l", "u">>),
        WordRecord(<<"t", "e", "a", " ", "s", "h", "o", "p">>)>>,
      <<WordRecord(<<"b", "o", " ", "a", "n", "d", " ", "b", "o">>)>>,
      <<NoWordRecord>>,
      <<WordRecord(<<"l", "u", "l", "u">>), NoWordRecord>> }

KeyPool ==
    { <<>>, <<"l", "u", "l", "u">>, <<"t", "e", "a", " ", "b", "a", "r">>,
      <<"l", "u", "x">>, <<"t", "e", "a">>,
      <<"M", "a", "t", "c", "h">>, <<"p", "h", "o", "n", "e">>,
      <<"t", "h", "o", "u", "g", "h", " ", "t", "e", "a">>,
      <<"a", "a", " ", " ", "b", "b", "e", "e">> }

\* the engine shows in the key: a dictionary word is returned as it is
KeyCallReadingIndex(t, x) ==
    /\ engine = "built"
    /\ calls[t].pc = "idle"
    /\ calls' = [calls EXCEPT ![t] =
                   [IdleFrame EXCEPT !.pc = "keyed", !.query = x,
                                     !.input_text =
                                        IF InSeq(x, dictionary) THEN x
                                        ELSE PhoneticKey(x)]]
    /\ UNCHANGED shared

\* key = self._get_phonetic_key(x)
KeyCall(t, x) ==
    /\ engine = "built"
    /\ calls[t].pc = "idle"
    /\ calls' = [calls EXCEPT ![t] =
                   [IdleFrame EXCEPT !.pc = "keyed", !.query = x,
                                     !.input_text = PhoneticKey(x)]]
    /\ UNCHANGED shared

\* __init__ run on the engine in use: the index is emptied before the
\* dictionary is loaded
RebuildInPlace(data) ==
    /\ engine \in {"built", "failed"}
    /\ ~(calls[MainThread].pc \in {"exact", "best", "returned", "raised"})
    /\ IF LoadRaises(data)
       THEN /\ build_error' = "KeyError"
            /\ dictionary' = <<>>
            /\ word_variations' = <<>>
            /\ UNCHANGED <<source, engine, generic_terms>>
       ELSE \E order \in Orders :
              /\ engine' = "built"
              /\ build_error' = "None"
              /\ source' = data
              /\ dictionary' = LoadDictionary(data)
              /\ word_variations' = GenerateVariations(LoadDictionary(data), order, <<>>)
              /\ generic_terms' = GenericTermsInit
    /\ UNCHANGED <<calls, batch, jobs, reports>>

\* matcher = WordMatcher(data), with no match_text call in progress
Rebuild(data) ==
    /\ engine \in {"built", "failed"}
    /\ ~(calls[MainThread].pc \in {"exact", "best", "returned", "raised"})
    /\ IF LoadRaises(data)
       THEN /\ build_error' = "KeyError"
            /\ UNCHANGED <<source, engine, dictionary, word_variations, generic_terms>>
       ELSE \E order \in Orders :
              /\ engine' = "built"
              /\ build_error' = "None"
              /\ source' = data
              /\ dictionary' = LoadDictionary(data)
              /\ word_variations' = GenerateVariations(LoadDictionary(data), order, <<>>)
              /\ generic_terms' = GenericTermsInit
    /\ UNCHANGED <<calls, batch, jobs, reports>>

InitRebuild ==
    /\ source \in RebuildSources
    /\ engine = "unbuilt"
    /\ dictionary = <<>>
    /\ word_variations = <<>>
    /\ generic_terms = {}
    /\ build_error = "None"
    /\ calls = [t \in Threads |-> IdleFrame]
    /\ PipelineIdle

NextRebuild ==
    \/ Construct
    \/ \E data \in RebuildSources : Rebuild(data)
    \/ \E q \in ConcQueryPool : Begin(MainThread, q)
    \/ ExactStep(MainThread)
    \/ BestStep(MainThread)
    \/ Decide(MainThread)
    \/ Return(MainThread)
    \/ \E t \in Threads, x \in KeyPool : KeyCall(t, x)
    \/ \E t \in Threads : Discard(t)

SpecRebuild == InitRebuild /\ [][NextRebuild]_vars

(***************************************************************************)
(* Callers of _calculate_confidence.  The frame holds the arguments in     *)
(* best_similarity and best_match_type and the level in result.confidence. *)
(***************************************************************************)
ScoreSteps == 20

\* the scores 0, 0.05, ... 1.0: every threshold of the classifier is one
ScoreGrid == {Rat(k, 20) : k \in 0..ScoreSteps}

MatchTypes == {"Exact", "Partial", "Phonetic"}

\* confidence = self._calculate_confidence(s, match_type)
Classify(t, s, match_type) ==
    /\ engine = "built"
    /\ calls[t].pc = "idle"
    /\ calls' = [calls EXCEPT ![t] =
                   [IdleFrame EXCEPT
                      !.pc = "classified",
                      !.best_similarity = s,
                      !.best_match_type = match_type,
                      !.result = [Pending EXCEPT
                                    !.confidence = CalculateConfidence(s, match_type)]]]
    /\ UNCHANGED shared

NextConfidence ==
    \/ Construct
    \/ \E t \in Threads, s \in ScoreGrid, match_type \in MatchTypes :
         Classify(t, s, match_type)
    \/ \E t \in Threads : Discard(t)

SpecConfidence == InitText /\ [][NextConfidence]_vars

(***************************************************************************)
(* The dictionary of three store names, in each order the file can list    *)
(* them, with queries of main().                                           *)
(***************************************************************************)
StoreWords ==
    { <<"a", "p", "p", "l", "e", " ", "s", "t", "o", "r", "e">>,
      <<"b", "a", "r", "n", "e", "s", " ", "a", "n", "d", " ", "n", "o", "b", "l", "e">>,
      <<"l", "u", "l", "u", "l", "e", "m", "o", "n">> }

StoreQueries ==
    { <<"j", "u", "i", "c", "e", " ", "b", "a", "r">>,
      <<"c", "o", "f", "f", "e", "e", " ", "s", "h", "o", "p">>,
      <<"a", "p", "p", "l", "e", " ", "s", "t", "o", "r", "e">>,
      <<"l", "u", "l", "u", "l", "e", "m", "m", "o", "n">> }

InitStores ==
    /\ source \in { s \in [1..Cardinality(StoreWords) -> {WordRecord(w) : w \in StoreWords}] :
                      \A i, j \in DOMAIN s : i # j => s[i] # s[j] }
    /\ engine = "unbuilt"
    /\ dictionary = <<>>
    /\ word_variations = <<>>
    /\ generic_terms = {}
    /\ build_error = "None"
    /\ calls = [t \in Threads |-> IdleFrame]
    /\ PipelineIdle

NextStores ==
    \/ Construct
    \/ \E q \in StoreQueries : Begin(MainThread, q)
    \/ ExactStep(MainThread)
    \/ BestStep(MainThread)
    \/ Decide(MainThread)
    \/ Return(MainThread)

SpecStores == InitStores /\ [][NextStores]_vars

(***************************************************************************)
(* Callers of _calculate_similarity, and of the length-penalty lines of    *)
(* match_text (356-363).  The frame of _calculate_similarity holds the     *)
(* arguments, the three similarities as they stand at line 250 and the     *)
(* value returned; the frame of the penalty lines holds the words of the   *)
(* query and of the entry and length_penalty.                              *)
(***************************************************************************)
\* a dictionary word and one of its variations
VariationPairs == UNION { {<<r[1], v>> : v \in r[2]} : r \in VariationSets }

\* string_similarity, phonetic_similarity and word_similarity at line 250
SimilarityLocals(factor, input_text, variation, input_words, dict_words, generic) ==
    [string_similarity |-> RMul(SeqRatio(input_text, variation), factor),
     phonetic_similarity |->
        RMul(SeqRatio(PhoneticKey(input_text), PhoneticKey(variation)), factor),
     word_similarity |->
        RMul(IF input_words # <<>> /\ dict_words # <<>>
             THEN WordSimilarity(input_words, dict_words, generic)
             ELSE Zero,
             factor)]

\* the all-generic test of line 244
AllGeneric(input_words, generic) ==
    \A i \in 1..Len(input_words) : input_words[i] \in generic

\* score = self._calculate_similarity(input_text, dict_word, variation)
Similarity(t, input_text, dict_word, variation) ==
    /\ engine = "built"
    /\ calls[t].pc = "idle"
    /\ calls' = [calls EXCEPT ![t] =
                   [pc |-> "scored",
                    input_text |-> Lower(input_text),
                    input_words |-> Split(Lower(input_text)),
                    dict_word |-> Lower(dict_word),
                    variation |-> Lower(variation),
                    locals |-> SimilarityLocals(
                                  IF AllGeneric(Split(Lower(input_text)), generic_terms)
                                  THEN GenericPenalty ELSE One,
                                  Lower(input_text), Lower(variation),
                                  Split(Lower(input_text)), Split(Lower(dict_word)),
                                  generic_terms),
                    result |-> CalculateSimilarity(generic_terms, input_text,
                                                   dict_word, variation)]]
    /\ UNCHANGED shared

\* lines 314-363 of match_text for one entry: length_penalty
Penalty(t, q, dict_word) ==
    /\ engine = "built"
    /\ calls[t].pc = "idle"
    /\ Len(Split(NormalizeText(dict_word))) > 1
    /\ calls' = [calls EXCEPT ![t] =
                   [pc |-> "penalised",
                    input_words |-> Split(NormalizeText(q)),
                    dict_words |-> Split(NormalizeText(dict_word)),
                    significant_dict_words |->
                       Without(Split(NormalizeText(dict_word)), generic_terms),
                    length_penalty |->
                       LengthPenalty(Split(NormalizeText(q)),
                                     Split(NormalizeText(dict_word)),
                                     Without(Split(NormalizeText(dict_word)),
                                             generic_terms))]]
    /\ UNCHANGED shared

NextScoring ==
    \/ Construct
    \/ /\ calls["t2"].pc = "idle"
       /\ \E q \in QueryPool, p \in VariationPairs : Similarity(MainThread, q, p[1], p[2])
    \/ \E t \in Threads, q \in QueryPool, w \in WordPool : Penalty(t, q, w)
    \/ \E t \in Threads : Discard(t)

SpecScoring == InitText /\ [][NextScoring]_vars

(***************************************************************************)
(* The transcription pipelines.  process_batch runs its stages on a pool   *)
(* of worker threads: a task is queued when it is submitted, runs when a   *)
(* worker takes it, and ends with the value its function returns.  The     *)
(* order in which the tasks of a stage end is the order in which           *)
(* as_completed hands their results to the code after the stage.           *)
(***************************************************************************)
matcher ==
    <<source, engine, dictionary, word_variations, generic_terms, build_error, calls>>

\* the batches handed to process_batch: files of one listing, no file twice
FileBatches ==
    {s \in SeqsUpTo(FilePool, MaxFiles) :
        /\ s # <<>>
        /\ \A i, j \in DOMAIN s : s[i] = s[j] => i = j}

\* the workers of the offline pool: max(2, min(CPU_COUNT * 2, 10)) is 2 on one core
MAX_WORKERS == 2

\* the workers of the pools of the Lambda
LAMBDA_WORKERS == 10

Workers == IF batch.mode = "offline" THEN MAX_WORKERS ELSE LAMBDA_WORKERS

UploadErrors == {"Failed to upload to S3"}
StartErrors == {"Failed to start job", "Failed to start job: limit exceeded"}
CheckErrors == {"Error checking status", "Error checking status: limit exceeded"}

\* the tasks of a stage that a worker is running
Busy(stage) == {i \in DOMAIN batch.task : batch.task[i][stage] = "running"}

StageOverForSome(stage) ==
    \E i \in DOMAIN batch.task : batch.task[i][stage] \notin {"none", "queued", "running"}

\* every task of a stage has ended
StageOver(stage) ==
    \A i \in DOMAIN batch.task : batch.task[i][stage] \notin {"queued", "running"}

\* a worker takes the next task of the queue
TaskBegin(stage, i) ==
    /\ batch.queue # <<>>
    /\ i = Head(batch.queue)
    /\ Cardinality(Busy(stage)) < Workers
    /\ batch' = [batch EXCEPT !.queue = Tail(batch.queue),
                              !.task[i][stage] = "running"]

\* a task ends with a value
TaskEnd(stage, i, value) ==
    batch' = [batch EXCEPT !.task[i][stage] = value,
                           !.done = Append(batch.done, i)]

\* results[filename] = value
Put(d, k, v) == [n \in DOMAIN d \cup {k} |-> IF n = k THEN v ELSE d[n]]

\* for filename, value in entries: results[filename] = value
RECURSIVE StoreAll(_, _)
StoreAll(d, entries) ==
    IF entries = <<>> THEN d
    ELSE StoreAll(Put(d, Head(entries)[1], Head(entries)[2]), Tail(entries))

\* the (filename, value) pairs of a stage, in the order the tasks ended
StageResults(stage) ==
    [k \in DOMAIN batch.done |->
        <<Basename(batch.files[batch.done[k]]), batch.task[batch.done[k]][stage]>>]

\* the tasks submitted to the next stage: those that passed, as they ended
Submitted(stage, passed) ==
    [batch EXCEPT
        !.queue = SelectSeq(batch.done, LAMBDA i : batch.task[i][stage] = passed),
        !.done = <<>>]

\* process_batch(files): every upload is submitted
ProcessBatch(files) ==
    /\ batch.pc = "none"
    /\ batch' = [NoBatch EXCEPT
                    !.pc = "upload", !.mode = "offline", !.files = files,
                    !.task = [i \in DOMAIN files |->
                                 [upload |-> "queued", start |-> "none", check |-> "none"]],
                    !.queue = [i \in DOMAIN files |-> i]]
    /\ UNCHANGED <<jobs, reports>>
    /\ UNCHANGED matcher

UploadBegin(i) ==
    /\ batch.pc = "upload"
    /\ TaskBegin("upload", i)
    /\ UNCHANGED <<jobs, reports>>
    /\ UNCHANGED matcher

\* upload_to_s3: the URI of the object, or the message of the failure
UploadEnd(i, value) ==
    /\ batch.pc = "upload"
    /\ i \in Busy("upload")
    /\ value \in {"s3://"} \cup UploadErrors
    /\ TaskEnd("upload", i, value)
    /\ UNCHANGED <<jobs, reports>>
    /\ UNCHANGED matcher

\* after the uploads: the failures are recorded, a job start is submitted
\* for every upload that gave a URI
UploadsDone ==
    /\ batch.pc = "upload"
    /\ StageOver("upload")
    /\ LET failed == SelectSeq(StageResults("upload"), LAMBDA e : e[2] # "s3://")
           next == Submitted("upload", "s3://")
       IN batch' = [next EXCEPT
                       !.results = StoreAll(batch.results, failed),
                       !.pc = IF next.queue = <<>> THEN "returned" ELSE "start",
                       !.task = [i \in DOMAIN batch.task |->
                                    IF batch.task[i].upload = "s3://"
                                    THEN [batch.task[i] EXCEPT !.start = "queued"]
                                    ELSE batch.task[i]]]
    /\ UNCHANGED <<jobs, reports>>
    /\ UNCHANGED matcher

StartBegin(i) ==
    /\ batch.pc = "start"
    /\ TaskBegin("start", i)
    /\ UNCHANGED <<jobs, reports>>
    /\ UNCHANGED matcher

\* start_transcription_job: the service creates the job unless it refuses;
\* it refuses a job name that it already has
StartEnd(i, value) ==
    /\ batch.pc = "start"
    /\ i \in Busy("start")
    /\ LET job_name == JobName(Basename(batch.files[i]))
       IN \/ /\ value = "STARTED"
             /\ jobs[job_name] = "NONE"
             /\ jobs' = [jobs EXCEPT ![job_name] = "IN_PROGRESS"]
          \/ /\ value \in StartErrors
             /\ UNCHANGED jobs
    /\ TaskEnd("start", i, value)
    /\ UNCHANGED reports
    /\ UNCHANGED matcher

StartsDoneDroppingFailures ==
    /\ batch.pc = "start"
    /\ batch.mode = "offline"
    /\ \A i \in DOMAIN batch.task : batch.task[i].start \notin {"queued", "running"}
    /\ LET next == Submitted("start", "STARTED")
       IN batch' = [next EXCEPT
                       !.pc = IF next.queue = <<>> THEN "returned" ELSE "check",
                       !.task = [i \in DOMAIN batch.task |->
                                    IF batch.task[i].start = "STARTED"
                                    THEN [batch.task[i] EXCEPT !.check = "queued"]
                                    ELSE batch.task[i]]]
    /\ UNCHANGED <<jobs, reports>>
    /\ UNCHANGED matcher

\* after the job starts: the failures are recorded, a status check is
\* submitted for every job that started
StartsDone ==
    /\ batch.pc = "start"
    /\ batch.mode = "offline"
    /\ StageOver("start")
    /\ LET failed == SelectSeq(StageResults("start"), LAMBDA e : e[2] # "STARTED")
           next == Submitted("start", "STARTED")
       IN batch' = [next EXCEPT
                       !.results = StoreAll(batch.results, failed),
                       !.pc = IF next.queue = <<>> THEN "returned" ELSE "check",
                       !.task = [i \in DOMAIN batch.task |->
                                    IF batch.task[i].start = "STARTED"
                                    THEN [batch.task[i] EXCEPT !.check = "queued"]
                                    ELSE batch.task[i]]]
    /\ UNCHANGED <<jobs, reports>>
    /\ UNCHANGED matcher

CheckBegin(i) ==
    /\ batch.pc = "check"
    /\ TaskBegin("check", i)
    /\ UNCHANGED <<jobs, reports>>
    /\ UNCHANGED matcher

PollOnceWithoutLoop(status) ==
    IF status = "COMPLETED" THEN {"transcript"} ELSE {"Transcription failed"}

\* one turn of the loop of check_job_status on a job in a status: what the
\* turn ends with, "sleep" when it goes on to the next turn
PollOnce(status) ==
    IF status = "COMPLETED" THEN {"transcript"}
    ELSE IF status = "FAILED" THEN {"Transcription failed"}
    ELSE {"sleep"}

\* check_job_status, a turn of its loop: a call that raises ends it too
Poll(i) ==
    /\ batch.pc = "check"
    /\ i \in Busy("check")
    /\ \E value \in PollOnce(jobs[JobName(Basename(batch.files[i]))]) \cup CheckErrors :
          IF value = "sleep" THEN UNCHANGED batch ELSE TaskEnd("check", i, value)
    /\ UNCHANGED <<jobs, reports>>
    /\ UNCHANGED matcher

\* after the status checks: every result is recorded
ChecksDone ==
    /\ batch.pc = "check"
    /\ batch.mode = "offline"
    /\ StageOver("check")
    /\ batch' = [batch EXCEPT
                    !.results = StoreAll(batch.results, StageResults("check")),
                    !.pc = "returned"]
    /\ UNCHANGED <<jobs, reports>>
    /\ UNCHANGED matcher

\* the Transcribe service finishes a job, one way or the other
JobAdvance(n, status) ==
    /\ jobs[n] = "IN_PROGRESS"
    /\ status \in {"COMPLETED", "FAILED"}
    /\ jobs' = [jobs EXCEPT ![n] = status]
    /\ UNCHANGED <<batch, reports>>
    /\ UNCHANGED matcher

Tasks == 1..MaxFiles

NextOffline ==
    \/ \E files \in FileBatches : ProcessBatch(files)
    \/ \E i \in Tasks : UploadBegin(i)
    \/ \E i \in Tasks, value \in {"s3://"} \cup UploadErrors : UploadEnd(i, value)
    \/ UploadsDone
    \/ \E i \in Tasks : StartBegin(i)
    \/ \E i \in Tasks, value \in {"STARTED"} \cup StartErrors : StartEnd(i, value)
    \/ StartsDone
    \/ \E i \in Tasks : CheckBegin(i)
    \/ \E i \in Tasks : Poll(i)
    \/ ChecksDone
    \/ \E n \in JobNames, status \in {"COMPLETED", "FAILED"} : JobAdvance(n, status)

SpecOffline == InitText /\ [][NextOffline]_vars

\* a worker that runs check_job_status is scheduled again and again
SpecOfflineFair ==
    /\ InitText
    /\ [][NextOffline]_vars
    /\ \A i \in Tasks : WF_vars(Poll(i))

(***************************************************************************)
(* The Lambda pipeline: lambda_handler runs process_batch on a chunk of    *)
(* URIs, once as the initial run and once more, on the URIs the initial    *)
(* run asked to retry, as the retry run; process_transcriptions            *)
(* aggregates the responses of the two.                                    *)
(***************************************************************************)
\* "limit exceeded" in str(message).lower()
HasLimitExceeded(message) ==
    message \in {"Failed to start job: limit exceeded",
                 "Error checking status: limit exceeded"}

\* result.startswith("Transcription failed") or result.startswith("Error")
IsFailure(result) == result \in {"Transcription failed"} \cup CheckErrors

\* next(uri for fn, uri in file_infos if fn == filename)
UriOf(filename) ==
    batch.files[CHOOSE i \in DOMAIN batch.files :
                    /\ Basename(batch.files[i]) = filename
                    /\ \A j \in 1..(i - 1) : Basename(batch.files[j]) # filename]

\* the URIs appended to results['retryable_uris'] for the results of a stage
RECURSIVE Retryable(_, _)
Retryable(list, entries) ==
    IF entries = <<>> THEN list
    ELSE LET e == Head(entries)
             appended == IF e[2] # "STARTED" /\ HasLimitExceeded(e[2]) /\ ~batch.is_retry
                         THEN Append(list, UriOf(e[1]))
                         ELSE list
         IN Retryable(appended, Tail(entries))

\* the response of lambda_handler for what process_batch returned
Response(completed, retryable_uris) ==
    [statusCode |-> 200, completed |-> completed, retryable_uris |-> retryable_uris]

\* the response of lambda_handler when an exception was raised
ErrorResponse == [NoResponse EXCEPT !.statusCode = 500]

Run == IF batch.is_retry THEN "retry" ELSE "initial"

\* lambda_handler(event): an empty chunk is an error, otherwise
\* process_batch submits a job start for every URI.  A container that was
\* started for this run has a TIMESTAMP of its own, so that its job names
\* are new to the service.
LambdaHandler(chunk, is_retry, warm) ==
    /\ IF chunk = <<>>
       THEN /\ batch' = [NoBatch EXCEPT !.pc = "returned", !.mode = "lambda",
                                        !.is_retry = is_retry]
            /\ reports' = [reports EXCEPT ![IF is_retry THEN "retry" ELSE "initial"] =
                                              ErrorResponse]
       ELSE /\ batch' = [NoBatch EXCEPT
                            !.pc = "start", !.mode = "lambda", !.is_retry = is_retry,
                            !.files = chunk,
                            !.task = [i \in DOMAIN chunk |->
                                         [upload |-> "s3://", start |-> "queued",
                                          check |-> "none"]],
                            !.queue = [i \in DOMAIN chunk |-> i]]
            /\ UNCHANGED reports
    /\ jobs' = IF warm THEN jobs ELSE [n \in JobNames |-> "NONE"]
    /\ UNCHANGED matcher

\* after the job starts: a start refused for a limit is put on the retry
\* list, a status check is submitted for every job that started; with no
\* job started the run returns
LambdaStartsDone ==
    /\ batch.pc = "start"
    /\ batch.mode = "lambda"
    /\ StageOver("start")
    /\ LET next == Submitted("start", "STARTED")
           retryable_uris == Retryable(batch.retryable_uris, StageResults("start"))
       IN /\ batch' = [next EXCEPT
                          !.retryable_uris = retryable_uris,
                          !.pc = IF next.queue = <<>> THEN "returned" ELSE "check",
                          !.task = [i \in DOMAIN batch.task |->
                                       IF batch.task[i].start = "STARTED"
                                       THEN [batch.task[i] EXCEPT !.check = "queued"]
                                       ELSE batch.task[i]]]
          /\ reports' = IF next.queue = <<>>
                        THEN [reports EXCEPT ![Run] = Response(batch.results, retryable_uris)]
                        ELSE reports
    /\ UNCHANGED jobs
    /\ UNCHANGED matcher

\* the results of the status checks that are kept in results['completed']
Completed(entries) ==
    SelectSeq(entries,
              LAMBDA e : /\ ~(HasLimitExceeded(e[2]) /\ ~batch.is_retry)
                         /\ ~IsFailure(e[2]))

\* after the status checks: a check that met a limit is put on the retry
\* list, a transcript is recorded as completed; the run returns
LambdaChecksDone ==
    /\ batch.pc = "check"
    /\ batch.mode = "lambda"
    /\ StageOver("check")
    /\ LET retryable_uris == Retryable(batch.retryable_uris, StageResults("check"))
           completed == StoreAll(batch.results, Completed(StageResults("check")))
       IN /\ batch' = [batch EXCEPT !.retryable_uris = retryable_uris,
                                    !.results = completed,
                                    !.pc = "returned"]
          /\ reports' = [reports EXCEPT ![Run] = Response(completed, retryable_uris)]
    /\ UNCHANGED jobs
    /\ UNCHANGED matcher

\* get_prefix_before_english: a name without "_English" is its own prefix
GetPrefixBeforeEnglish(filename) == filename

\* process_results, the part for successful_dict
SuccessfulOf(results) ==
    UNION { {<<GetPrefixBeforeEnglish(filename), results[k].completed[filename]>> :
                filename \in DOMAIN results[k].completed} : k \in DOMAIN results }

\* process_results, the failed files it returns
RECURSIVE ProcessResults(_)
ProcessResults(results) ==
    IF results = <<>> THEN <<>>
    ELSE Head(results).retryable_uris \o ProcessResults(Tail(results))

Range(list) == {list[k] : k \in DOMAIN list}

\* list(set(failed_files)): the members of the list, each once, in an order
\* of the set's choosing
ListOfSet(list) ==
    {l \in [1..Cardinality(Range(list)) -> Range(list)] : Range(l) = Range(list)}

\* process_transcriptions(transcription_results, retry_results, ...)
ProcessTranscriptions(transcription_results, retry_results) ==
    /\ ~reports.aggregate.done
    /\ LET failed == ProcessResults(transcription_results) \o ProcessResults(retry_results)
       IN \E failed_files \in ListOfSet(failed) :
             reports' = [reports EXCEPT !.aggregate =
                            [done |-> TRUE,
                             successful |-> SuccessfulOf(transcription_results)
                                                \cup SuccessfulOf(retry_results),
                             failed_files |-> failed_files,
                             count |-> Len(failed_files)]]
    /\ UNCHANGED <<batch, jobs>>
    /\ UNCHANGED matcher

NextLambda ==
    \/ /\ batch.pc = "none"
       /\ \E chunk \in FileBatches \cup {<<>>} : LambdaHandler(chunk, FALSE, TRUE)
    \/ /\ batch.pc = "returned"
       /\ reports.initial.statusCode = 200
       /\ reports.retry = NoResponse
       /\ ~reports.aggregate.done
       /\ \E warm \in BOOLEAN : LambdaHandler(reports.initial.retryable_uris, TRUE, warm)
    \/ \E i \in Tasks : StartBegin(i)
    \/ \E i \in Tasks, value \in {"STARTED"} \cup StartErrors : StartEnd(i, value)
    \/ LambdaStartsDone
    \/ \E i \in Tasks : CheckBegin(i)
    \/ \E i \in Tasks : Poll(i)
    \/ LambdaChecksDone
    \/ \E n \in JobNames, status \in {"COMPLETED", "FAILED"} : JobAdvance(n, status)
    \/ /\ batch.pc = "returned"
       /\ ProcessTranscriptions(<<reports.initial>>,
                                IF reports.retry = NoResponse THEN <<>>
                                ELSE <<reports.retry>>)

SpecLambda == InitText /\ [][NextLambda]_vars

(***************************************************************************)
(* Claims.                                                                *)
(***************************************************************************)

\* C1 as stated: for every entry E of the index and every query, if the
\* normalized query is a registered variation of E and the first-token rule
\* is satisfied for E, match_text returns (E, Exact, High).
C1_AnyEntrySatisfying ==
    \A t \in Threads :
      LET f == calls[t]
          Applies(E) ==
              /\ InSeq(f.input_text, E.variations)
              /\ \/ ~(Len(f.input_words) = 1 /\ Len(Split(NormalizeText(E.word))) > 1)
                 \/ f.input_text = Split(NormalizeText(E.word))[1]
      IN  \A k \in 1..Len(word_variations) :
            (Finished(f) /\ Applies(word_variations[k]))
            => f.result = Match(word_variations[k].word, "Exact", "High")

\* C1 amended: if the normalized query is a registered variation of E, the
\* first-token rule is satisfied for E, and no entry before E in the order of
\* the index satisfies both, match_text returns (E, Exact, High).
C1_FirstEntrySatisfying ==
    \A t \in Threads :
      LET f == calls[t]
          Applies(E) ==
              /\ InSeq(f.input_text, E.variations)
              /\ \/ ~(Len(f.input_words) = 1 /\ Len(Split(NormalizeText(E.word))) > 1)
                 \/ f.input_text = Split(NormalizeText(E.word))[1]
      IN  \A k \in 1..Len(word_variations) :
            (/\ Finished(f)
             /\ Applies(word_variations[k])
             /\ \A j \in 1..(k - 1) : ~Applies(word_variations[j]))
            => f.result = Match(word_variations[k].word, "Exact", "High")

\* a call has returned the first of two different entries that both have the
\* normalized query as a variation and satisfy the first-token rule
C1_Witness ==
    LET f == calls[MainThread]
        Applies(E) ==
            /\ InSeq(f.input_text, E.variations)
            /\ \/ ~(Len(f.input_words) = 1 /\ Len(Split(NormalizeText(E.word))) > 1)
               \/ f.input_text = Split(NormalizeText(E.word))[1]
    IN  /\ f.pc = "returned"
        /\ f.input_words # <<>>
        /\ Len(word_variations) = 2
        /\ Applies(word_variations[1])
        /\ Applies(word_variations[2])
        /\ f.result = Match(word_variations[1].word, "Exact", "High")

\* C2 as stated: for a single-token query and a multi-token entry E whose
\* variations contain the query, match_text (both scans) returns E with type
\* Exact only if the query equals the first token of E.
C2_ExactOnlyOnFirstToken ==
    \A t \in Threads :
      LET f == calls[t]
      IN  \A k \in 1..Len(word_variations) :
            LET E == word_variations[k]
            IN  (/\ f.pc = "returned"
                 /\ Len(f.input_words) = 1
                 /\ Len(Split(NormalizeText(E.word))) > 1
                 /\ InSeq(f.input_text, E.variations)
                 /\ f.result.kind = "Match"
                 /\ f.result.word = E.word
                 /\ f.result.type = "Exact")
                => f.input_text = Split(NormalizeText(E.word))[1]

\* C3: every result of match_text is NoMatch with no matched word, or has a
\* matched word that is a key of the index, a type in {Exact, Partial,
\* Phonetic} and a confidence in {High, Medium, Low}.
C3_ResultWellFormed ==
    \A t \in Threads :
      calls[t].pc = "returned"
      => \/ calls[t].result = NoMatch
         \/ /\ calls[t].result.kind = "Match"
            /\ \E k \in 1..Len(word_variations) :
                 word_variations[k].word = calls[t].result.word
            /\ calls[t].result.type \in {"Exact", "Partial", "Phonetic"}
            /\ calls[t].result.confidence \in {"High", "Medium", "Low"}

\* the best-candidate scan has returned a Phonetic match
C3_Witness ==
    /\ calls[MainThread].pc = "returned"
    /\ calls[MainThread].finals # <<>>
    /\ calls[MainThread].result.kind = "Match"
    /\ calls[MainThread].result.type = "Phonetic"

\* C4: the confidence of every returned match is the threshold table applied
\* to (final score, match type): Exact -> High; Partial -> High from 0.8,
\* Medium from 0.6, else Low; Phonetic -> High from 0.7, Medium from 0.5,
\* else Low.  The exact-match scan returns Exact, whose row ignores the score.
C4_ConfidenceFromTable ==
    \A t \in Threads :
      LET f == calls[t]
          score == f.best_similarity
          Table(type) ==
              IF type = "Exact" THEN "High"
              ELSE IF type = "Partial"
                   THEN (IF RLe(<<8, 10>>, score) THEN "High"
                         ELSE IF RLe(<<6, 10>>, score) THEN "Medium" ELSE "Low")
                   ELSE (IF RLe(<<7, 10>>, score) THEN "High"
                         ELSE IF RLe(<<5, 10>>, score) THEN "Medium" ELSE "Low")
      IN  (f.pc = "returned" /\ f.result.kind = "Match")
          => /\ f.result.type \in {"Exact", "Partial", "Phonetic"}
             /\ f.result.confidence = Table(f.result.type)

\* the best-candidate scan has returned an Exact match whose final score the
\* length penalty has brought below 1
C4_Witness ==
    /\ calls[MainThread].pc = "returned"
    /\ calls[MainThread].finals # <<>>
    /\ calls[MainThread].result.kind = "Match"
    /\ calls[MainThread].result.type = "Exact"
    /\ RLt(calls[MainThread].best_similarity, One)

\* C5 as stated: when the exact-match scan accepts no entry, match_text
\* returns a match iff the highest final score over all entries is >= 0.5,
\* the returned word being an entry that attains it; otherwise it returns
\* NoMatch, and it never ends in an error.
C5_MatchIffFloorReached ==
    \A t \in Threads :
      LET f == calls[t]
      IN  (/\ Finished(f)
           /\ \A k \in 1..Len(word_variations) :
                ~ExactAccepts(f.input_text, f.input_words, word_variations[k]))
          => /\ f.pc = "returned"
             /\ Len(f.finals) = Len(word_variations)
             /\ IF f.finals # <<>> /\ RLe(<<1, 2>>, RMaxSeq(f.finals))
                THEN /\ f.result.kind = "Match"
                     /\ \E k \in 1..Len(word_variations) :
                          /\ word_variations[k].word = f.result.word
                          /\ f.finals[k] = RMaxSeq(f.finals)
                ELSE f.result = NoMatch

\* C6 as stated: for every dictionary, an empty or whitespace-only query
\* normalizes to the empty string, has zero tokens, and makes match_text
\* return NoMatch without raising.
C6_EmptyQueryNoMatch ==
    \A t \in Threads :
      LET f == calls[t]
      IN  (Finished(f) /\ \A i \in 1..Len(f.query) : IsSpace(f.query[i]))
          => /\ f.input_text = <<>>
             /\ f.input_words = <<>>
             /\ f.pc = "returned"
             /\ f.result = NoMatch

\* C7 as stated: construction completes whatever the records, and the index
\* holds exactly the records that have a `word` field.
C7_RecordWithoutWordSkipped ==
    engine # "unbuilt"
    => /\ engine = "built"
       /\ dictionary = LoadDictionary(SelectSeq(source, LAMBDA r : r.has_word))
       /\ {word_variations[k].word : k \in 1..Len(word_variations)}
            = {source[k].word : k \in {j \in 1..Len(source) : source[j].has_word}}

\* C8 as stated: the scoring functions never raise, so match_text completes
\* for every index and query.
C8_ScoringTotal ==
    \A t \in Threads :
      /\ calls[t].pc # "raised"
      /\ (calls[t].pc = "best" /\ calls[t].i <= Len(word_variations))
         => ~EntryScoreOf(generic_terms, calls[t].input_text, calls[t].input_words,
                          word_variations[calls[t].i]).raised

\* C9: building the index from an empty dictionary succeeds and gives an
\* empty index, and every query against it returns NoMatch.
C9_EmptyDictionary ==
    (source = <<>> /\ engine # "unbuilt")
    => /\ engine = "built"
       /\ dictionary = <<>>
       /\ word_variations = <<>>
       /\ \A t \in Threads :
            Finished(calls[t])
            => calls[t].pc = "returned" /\ calls[t].result = NoMatch

\* a query with a token has returned NoMatch from the empty index
C9_Witness ==
    /\ source = <<>>
    /\ engine = "built"
    /\ calls[MainThread].pc = "returned"
    /\ calls[MainThread].input_words # <<>>
    /\ calls[MainThread].result = NoMatch

\* C10: match_text only reads the shared state: while calls of several
\* threads interleave, the dictionary, the variation index and the generic
\* terms stay what construction made them, and every call that ends has the
\* result match_text gives for its query when it runs alone on that index.
C10_CallsIndependent ==
    engine = "built"
    => /\ dictionary = LoadDictionary(source)
       /\ generic_terms = GenericTermsInit
       /\ \E order \in Orders :
            word_variations = GenerateVariations(dictionary, order, <<>>)
       /\ \A t \in Threads :
            Finished(calls[t])
            => calls[t].result
                 = MatchText(word_variations, GenericTermsInit, calls[t].query)

\* one call has returned a match while a call of another thread, for another
\* query, is in the middle of its best-candidate scan
C10_Witness ==
    /\ calls["t1"].pc = "returned"
    /\ calls["t1"].result.kind = "Match"
    /\ calls["t2"].pc = "best"
    /\ calls["t2"].i = 2
    /\ calls["t2"].query # calls["t1"].query

\* C11: after index construction the variation list of every entry contains
\* the lowercased original word, the normalized word and the phonetic key of
\* the normalized word, for compound and single-word entries alike.
C11_SeedVariations ==
    engine = "built"
    => \A k \in 1..Len(word_variations) :
         LET E == word_variations[k]
         IN  /\ InSeq(Lower(E.word), E.variations)
             /\ InSeq(NormalizeText(E.word), E.variations)
             /\ InSeq(PhoneticKey(NormalizeText(E.word)), E.variations)

\* an index with a compound entry and a single-word entry whose word, normalized
\* word and phonetic key are three different strings
C11_Witness ==
    /\ engine = "built"
    /\ Len(word_variations) = 2
    /\ Len(Split(NormalizeText(word_variations[1].word))) > 1
    /\ Len(Split(NormalizeText(word_variations[2].word))) = 1
    /\ Lower(word_variations[2].word) # NormalizeText(word_variations[2].word)
    /\ PhoneticKey(NormalizeText(word_variations[2].word))
         # NormalizeText(word_variations[2].word)

\* C12: the best-candidate scan replaces the running best only by a strictly
\* greater final score: the match it returns is the first entry in dictionary
\* order among those with the highest final score, with the match type
\* computed for that entry.
C12_FirstEntryWinsTies ==
    \A t \in Threads :
      LET f == calls[t]
      IN  (f.pc = "returned" /\ f.finals # <<>> /\ f.result.kind = "Match")
          => \E k \in 1..Len(word_variations) :
               /\ f.finals[k] = RMaxSeq(f.finals)
               /\ \A j \in 1..(k - 1) : f.finals[j] # RMaxSeq(f.finals)
               /\ f.result.word = word_variations[k].word
               /\ f.result.type
                    = EntryScoreOf(generic_terms, f.input_text, f.input_words,
                                   word_variations[k]).type

\* the best-candidate scan has returned the first of two entries that have
\* the same final score
C12_Witness ==
    LET f == calls[MainThread]
    IN  /\ f.pc = "returned"
        /\ f.result.kind = "Match"
        /\ Len(f.finals) = 2
        /\ f.finals[1] = f.finals[2]
        /\ f.result.word = word_variations[1].word

\* C13: normalization is idempotent, _normalize_text(_normalize_text(x)) =
\* _normalize_text(x) for every x, and the empty string normalizes to the
\* empty string.
C13_NormalizeIdempotent ==
    \A t \in Threads :
      /\ calls[t].pc = "renormalized"
         => calls[t].input_text = NormalizeText(calls[t].query)
      /\ (calls[t].pc \in {"normalized", "renormalized"} /\ calls[t].query = <<>>)
         => calls[t].input_text = <<>>

\* a text with upper case, punctuation between two spaces and a tab has been
\* normalized twice
C13_Witness ==
    /\ calls[MainThread].pc = "renormalized"
    /\ calls[MainThread].query = <<"B", " ", "-", "\t", "a">>
    /\ calls[MainThread].input_text = <<"b", " ", "a">>

\* C14 as stated: the output of _normalize_text has only lowercase letters,
\* digits and single spaces (the underscore is stripped too), no leading or
\* trailing space and no two consecutive spaces.
C14_OnlyLettersDigitsSpaces ==
    \A t \in Threads :
      LET out == calls[t].input_text
      IN  calls[t].pc = "normalized"
          => /\ \A i \in 1..Len(out) :
                  \/ \E k \in 1..Len(LowerSeq) : LowerSeq[k] = out[i]
                  \/ out[i] \in {"0", "1", "2", "3", "4", "5", "6", "7", "8", "9"}
                  \/ out[i] = " "
             /\ out # <<>> => (out[1] # " " /\ out[Len(out)] # " ")
             /\ \A i \in 1..(Len(out) - 1) : ~(out[i] = " " /\ out[i + 1] = " ")

C16_Rank(confidence) ==
    IF confidence = "Low" THEN 0 ELSE IF confidence = "Medium" THEN 1 ELSE 2

\* C16: confidence is monotone in the score: for one match type and scores
\* s1 <= s2, _calculate_confidence(s2, type) is not lower than
\* _calculate_confidence(s1, type) in the order Low < Medium < High.
C16_ConfidenceMonotone ==
    \A t \in Threads, u \in Threads :
      ( /\ calls[t].pc = "classified"
        /\ calls[u].pc = "classified"
        /\ calls[t].best_match_type = calls[u].best_match_type
        /\ RLe(calls[t].best_similarity, calls[u].best_similarity) )
      => /\ calls[t].result.confidence \in {"Low", "Medium", "High"}
         /\ C16_Rank(calls[t].result.confidence) <= C16_Rank(calls[u].result.confidence)

\* a Partial score of 0.55 is Low and a Partial score of 0.6 is Medium
C16_Witness ==
    /\ calls["t1"].pc = "classified"
    /\ calls["t2"].pc = "classified"
    /\ calls["t1"].best_match_type = "Partial"
    /\ calls["t2"].best_match_type = "Partial"
    /\ calls["t1"].best_similarity = <<11, 20>>
    /\ calls["t2"].best_similarity = <<3, 5>>
    /\ calls["t1"].result.confidence = "Low"
    /\ calls["t2"].result.confidence = "Medium"

\* C17: the final score of every entry, after the length penalty and the
\* subset boost, lies in [0, 1], so does the running best, and the subset
\* boost applied once more to a final score does not give more than 1.0.
C17_FinalScoresInUnitInterval ==
    \A t \in Threads :
      LET f == calls[t]
      IN  /\ RLe(Zero, f.best_similarity) /\ RLe(f.best_similarity, One)
          /\ \A k \in 1..Len(f.finals) :
               /\ RLe(Zero, f.finals[k])
               /\ RLe(f.finals[k], One)
               /\ RLe(AfterBoost(f.finals[k], f.input_words,
                                 Split(NormalizeText(word_variations[k].word))),
                      One)

\* an entry of two words has the final score 1.0 for a query whose tokens are
\* all words of the entry: the boost was applied to a score above 0.9
C17_Witness ==
    \E k \in 1..Len(calls[MainThread].finals) :
      /\ k <= Len(word_variations)
      /\ calls[MainThread].finals[k] = One
      /\ calls[MainThread].input_words # <<>>
      /\ Len(Split(NormalizeText(word_variations[k].word))) > 1
      /\ SeqToSet(calls[MainThread].input_words)
           \subseteq SeqToSet(Split(NormalizeText(word_variations[k].word)))

\* C19: with the dictionary {"apple store", "barnes and noble", "lululemon"}
\* the query "juice bar", whose two tokens are generic terms, returns
\* NoMatch: the final score of no entry reaches 0.5.
C19_JuiceBarNoMatch ==
    ( /\ SeqToSet(dictionary) = StoreWords
      /\ calls[MainThread].query = <<"j", "u", "i", "c", "e", " ", "b", "a", "r">>
      /\ calls[MainThread].pc \in {"best", "returned", "raised"} )
    => /\ SeqToSet(calls[MainThread].input_words) \subseteq generic_terms
       /\ \A k \in 1..Len(calls[MainThread].finals) :
            RLt(calls[MainThread].finals[k], AcceptFloor)
       /\ calls[MainThread].pc # "raised"
       /\ calls[MainThread].pc = "returned"
          => /\ Len(calls[MainThread].finals) = Cardinality(StoreWords)
             /\ calls[MainThread].result = NoMatch

\* "juice bar" has returned NoMatch after the three entries were scored
C19_Witness ==
    /\ SeqToSet(dictionary) = StoreWords
    /\ calls[MainThread].query = <<"j", "u", "i", "c", "e", " ", "b", "a", "r">>
    /\ calls[MainThread].pc = "returned"
    /\ Len(calls[MainThread].finals) = 3
    /\ calls[MainThread].result = NoMatch

\* C20 as stated: the result of match_text (word, type and confidence) does
\* not depend on the order in which the variations of an entry are stored
\* and scanned: a call that has ended has the result match_text gives on the
\* index of the same dictionary in each order of the variation lists.
C20_ResultIndependentOfOrder ==
    engine = "built"
    => \A t \in Threads :
         Finished(calls[t])
         => \A order \in Orders :
              calls[t].result
                = MatchText(GenerateVariations(dictionary, order, <<>>),
                            generic_terms, calls[t].query)

\* C21: for a query all of whose tokens are generic terms,
\* _calculate_similarity returns at most 0.5 for every variation that is not
\* equal to the query: the string, phonetic and word-level similarities are
\* each multiplied by 0.5 before the maximum is taken.
C21_AllGenericAtMostHalf ==
    \A t \in Threads :
      ( /\ calls[t].pc = "scored"
        /\ AllGeneric(calls[t].input_words, GenericTermsInit)
        /\ calls[t].input_text # calls[t].variation
        /\ ~calls[t].result.raised )
      => /\ RLe(calls[t].result.sim, <<1, 2>>)
         /\ calls[t].locals.string_similarity
              = RMul(SeqRatio(calls[t].input_text, calls[t].variation), <<1, 2>>)
         /\ RLe(calls[t].locals.phonetic_similarity, <<1, 2>>)
         /\ RLe(calls[t].locals.word_similarity, <<1, 2>>)

\* "cafe bar" scored against the variation "tea bar": the strings are more
\* than half alike and the score returned is not above 0.5
C21_Witness ==
    /\ calls[MainThread].pc = "scored"
    /\ calls[MainThread].input_text = <<"c", "a", "f", "e", " ", "b", "a", "r">>
    /\ calls[MainThread].variation = <<"t", "e", "a", " ", "b", "a", "r">>
    /\ RLt(<<1, 2>>, SeqRatio(calls[MainThread].input_text, calls[MainThread].variation))
    /\ RLe(calls[MainThread].result.sim, <<1, 2>>)
    /\ RLt(Zero, calls[MainThread].result.sim)

\* C22: for a pair that is not exact, _calculate_similarity returns the
\* maximum of the string, phonetic and word-level scores; the match type is
\* Partial exactly when the string score equals that maximum, ties included,
\* and Phonetic otherwise, also when only the word-level score is the maximum.
C22_MaximumAndType ==
    \A t \in Threads :
      ( /\ calls[t].pc = "scored"
        /\ calls[t].input_text # calls[t].variation
        /\ ~calls[t].result.raised )
      => LET l == calls[t].locals
             r == calls[t].result
         IN  /\ r.sim \in {l.string_similarity, l.phonetic_similarity, l.word_similarity}
             /\ RLe(l.string_similarity, r.sim)
             /\ RLe(l.phonetic_similarity, r.sim)
             /\ RLe(l.word_similarity, r.sim)
             /\ r.type = "Partial" <=> l.string_similarity = r.sim
             /\ r.type = "Phonetic" <=> l.string_similarity # r.sim

\* a pair whose word-level score alone is the maximum has the type Phonetic
C22_Witness ==
    /\ calls[MainThread].pc = "scored"
    /\ calls[MainThread].input_text # calls[MainThread].variation
    /\ ~calls[MainThread].result.raised
    /\ calls[MainThread].result.type = "Phonetic"
    /\ calls[MainThread].result.sim = calls[MainThread].locals.word_similarity
    /\ RLt(calls[MainThread].locals.string_similarity, calls[MainThread].result.sim)
    /\ RLt(calls[MainThread].locals.phonetic_similarity, calls[MainThread].result.sim)

\* C23 as stated: for a compound entry, the length penalty of a query that
\* has the first token of the entry or one of its significant tokens is not
\* larger than the penalty of a query with as many tokens that has neither.
C23_SharedPenaltyNotLarger ==
    \A t \in Threads, u \in Threads :
      LET f == calls[t]
          g == calls[u]
      IN  ( /\ f.pc = "penalised" /\ g.pc = "penalised"
            /\ f.dict_words = g.dict_words
            /\ Len(f.input_words) = Len(g.input_words)
            /\ \/ InSeq(f.dict_words[1], f.input_words)
               \/ \E i \in 1..Len(f.input_words) :
                    InSeq(f.input_words[i], f.significant_dict_words)
            /\ ~InSeq(g.dict_words[1], g.input_words)
            /\ ~\E i \in 1..Len(g.input_words) :
                   InSeq(g.input_words[i], g.significant_dict_words) )
          => RLe(f.length_penalty, g.length_penalty)

\* the positions at which two token lists of one length differ
C24_Differing(a, b) == {p \in 1..Len(a) : a[p] # b[p]}

\* C24: for a compound entry, every phrase-level phonetic-confusion
\* variation (a variation of as many tokens as the normalized phrase that is
\* neither the phrase, the lowercased word nor the phonetic key) differs from
\* the normalized phrase in exactly one token position, and that position is
\* the first at which the substituted token occurs in the phrase.
C24_OneTokenFirstOccurrence ==
    engine = "built"
    => \A k \in 1..Len(word_variations) :
         LET E == word_variations[k]
             parts == Split(NormalizeText(E.word))
         IN  Len(parts) > 1
             => \A i \in 1..Len(E.variations) :
                  LET v == E.variations[i]
                  IN  ( /\ Len(Split(v)) = Len(parts)
                        /\ v = Join(Split(v), Space)
                        /\ v \notin {NormalizeText(E.word), Lower(E.word),
                                     PhoneticKey(NormalizeText(E.word))} )
                      => \E p \in 1..Len(parts) :
                           /\ C24_Differing(Split(v), parts) = {p}
                           /\ \A q \in 1..(p - 1) : parts[q] # parts[p]

\* the entry "bo and bo" has the variation "vo and bo" and not "bo and vo"
C24_Witness ==
    /\ engine = "built"
    /\ \E k \in 1..Len(word_variations) :
         /\ word_variations[k].word = <<"b", "o", " ", "a", "n", "d", " ", "b", "o">>
         /\ InSeq(<<"v", "o", " ", "a", "n", "d", " ", "b", "o">>,
                  word_variations[k].variations)
         /\ ~InSeq(<<"b", "o", " ", "a", "n", "d", " ", "v", "o">>,
                   word_variations[k].variations)

\* the reference pipeline of C25, step by step
RECURSIVE C25_InTableOrder(_, _)
C25_InTableOrder(s, k) ==
    IF k = 0 THEN s
    ELSE LET before == C25_InTableOrder(s, k - 1)
         IN  IF Len(before) >= 0
             THEN Replace(before, PhoneticPatterns[k][1], PhoneticPatterns[k][2])
             ELSE before

C25_RunsCollapsed(s) ==
    LET kept == {i \in 1..Len(s) : i = 1 \/ s[i] # s[i - 1]}
        nth(n) == CHOOSE i \in kept : Cardinality({j \in kept : j <= i}) = n
    IN  [n \in 1..Cardinality(kept) |-> s[nth(n)]]

C25_WordKey(w) ==
    <<w[1]>> \o SelectSeq(SubSeq(w, 2, Len(w)), LAMBDA c : c \notin {"a", "e", "i", "o", "u"})

C25_Reference(x) ==
    LET words == Split(C25_RunsCollapsed(C25_InTableOrder(Lower(x), Len(PhoneticPatterns))))
    IN  Join([n \in 1..Len(words) |-> C25_WordKey(words[n])], Space)

\* C25: _get_phonetic_key is the reference pipeline: lowercase; each pattern
\* of the table replaced everywhere, in table order, before the next one;
\* each run of one character collapsed to one; per word the first character
\* kept and every vowel removed from the rest; the words joined by single
\* spaces.  No word of a key has a vowel after its first character.
C25_KeyIsReferencePipeline ==
    \A t \in Threads :
      calls[t].pc = "keyed"
      => /\ calls[t].input_text = C25_Reference(calls[t].query)
         /\ \A n \in 1..Len(Split(calls[t].input_text)) :
              \A i \in 2..Len(Split(calls[t].input_text)[n]) :
                Split(calls[t].input_text)[n][i] \notin {"a", "e", "i", "o", "u"}

\* the key of "Match" is "mtk": "ch" was replaced before "tch" was tried
C25_Witness ==
    /\ calls[MainThread].pc = "keyed"
    /\ calls[MainThread].query = <<"M", "a", "t", "c", "h">>
    /\ calls[MainThread].input_text = <<"m", "t", "k">>

\* C26: in the offline process_batch the stages are separated by barriers:
\* a file has a job start submitted only when every upload of the batch has
\* ended, and a status check only when every job start has ended; only a
\* file whose upload gave a URI gets a job start, and only a job that
\* started gets a status check.
C26_StagesSeparated ==
    batch.mode = "offline" =>
        \A i \in DOMAIN batch.task :
            /\ batch.task[i].start # "none" =>
                  /\ batch.task[i].upload = "s3://"
                  /\ \A j \in DOMAIN batch.task :
                        batch.task[j].upload \notin {"queued", "running"}
            /\ batch.task[i].check # "none" =>
                  /\ batch.task[i].start = "STARTED"
                  /\ \A j \in DOMAIN batch.task :
                        batch.task[j].start \notin {"queued", "running"}

\* C26 witness: a job is polled in a batch in which another file's upload
\* failed.
C26_Witness ==
    /\ batch.mode = "offline"
    /\ \E i, j \in DOMAIN batch.task :
          /\ batch.task[i].check = "running"
          /\ batch.task[j].upload \in UploadErrors

\* what process_batch is to report for a file: the message of the stage
\* that failed, or what the status check gave
C27_Outcome(i) ==
    IF batch.task[i].upload # "s3://" THEN batch.task[i].upload
    ELSE IF batch.task[i].start # "STARTED" THEN batch.task[i].start
    ELSE batch.task[i].check

C27_DistinctBaseNames ==
    \A i, j \in DOMAIN batch.files :
        Basename(batch.files[i]) = Basename(batch.files[j]) => i = j

\* C27: for files with distinct base names, the dictionary the offline
\* process_batch returns has exactly one entry per file, with the file's
\* transcript or the message of the stage that failed for it.
C27_OneEntryPerFile ==
    (batch.mode = "offline" /\ batch.pc = "returned" /\ C27_DistinctBaseNames) =>
        /\ DOMAIN batch.results = {Basename(batch.files[i]) : i \in DOMAIN batch.files}
        /\ Cardinality(DOMAIN batch.results) = Len(batch.files)
        /\ \A i \in DOMAIN batch.files :
              batch.results[Basename(batch.files[i])] = C27_Outcome(i)

\* C27 witness: a batch of two files has returned, the job start of one
\* failed and the other has its transcript.
C27_Witness ==
    /\ batch.mode = "offline"
    /\ batch.pc = "returned"
    /\ C27_DistinctBaseNames
    /\ \E i, j \in DOMAIN batch.files :
          /\ batch.task[i].start \in StartErrors
          /\ batch.task[j].check = "transcript"

C28_Status(i) == jobs[JobName(Basename(batch.files[i]))]

\* C28: check_job_status returns the transcript only for a job it saw
\* COMPLETED, the failure only for a job it saw FAILED, and otherwise only
\* when a call raised; and once the job is COMPLETED or FAILED a check that
\* is running returns.
C28_ReturnsOnTerminalStatus ==
    /\ [][\A i \in Tasks :
             (i \in Busy("check") /\ batch'.task[i].check # "running") =>
                 \/ batch'.task[i].check = "transcript" /\ C28_Status(i) = "COMPLETED"
                 \/ batch'.task[i].check = "Transcription failed" /\ C28_Status(i) = "FAILED"
                 \/ batch'.task[i].check \in CheckErrors]_vars
    /\ \A i \in Tasks :
          (i \in Busy("check") /\ C28_Status(i) \in {"COMPLETED", "FAILED"})
              ~> (i \notin Busy("check"))

\* C28 witness: a check is running on a job that has no terminal status
\* while another check of the batch has returned the failure of its job.
C28_Witness ==
    \E i, j \in DOMAIN batch.task :
        /\ i \in Busy("check")
        /\ C28_Status(i) = "IN_PROGRESS"
        /\ batch.task[j].check = "Transcription failed"

\* C29: in the Lambda's process_batch a URI is put on the retry list only
\* in a run that is not a retry: a retry run returns an empty
\* retryable_uris, and in every run no file is both in completed and in
\* retryable_uris.
C29_RetryListOnlyInFirstRun ==
    (batch.mode = "lambda" /\ batch.pc = "returned") =>
        /\ batch.is_retry => reports.retry.retryable_uris = <<>>
        /\ \A i \in DOMAIN batch.files :
              ~ /\ Basename(batch.files[i]) \in DOMAIN reports[Run].completed
                /\ batch.files[i] \in Range(reports[Run].retryable_uris)

\* C30: when process_transcriptions has aggregated an initial run and its
\* retry run, no file whose transcription one of the two responses records
\* as completed is listed in failed_files, failed_files has no file twice
\* and count is its length.
C30_NoCompletedFileFailed ==
    (reports.aggregate.done /\ reports.retry # NoResponse) =>
        /\ \A k \in DOMAIN reports.aggregate.failed_files :
              Basename(reports.aggregate.failed_files[k]) \notin
                  DOMAIN reports.initial.completed \cup DOMAIN reports.retry.completed
        /\ \A k, l \in DOMAIN reports.aggregate.failed_files :
              reports.aggregate.failed_files[k] = reports.aggregate.failed_files[l] => k = l
        /\ reports.aggregate.count = Len(reports.aggregate.failed_files)

====
